---- MODULE Spec2Model ----
(***************************************************************************)
(* mail-patch-series: the iteration/versioning state machine of the        *)
(* script (tag discovery, iteration numbering, rebase repair, interdiff,   *)
(* reply-chain recovery, tag creation, send, publish) over a model of the  *)
(* git repository it drives.                                               *)
(*                                                                         *)
(* Text is modelled as sequences of tokens.  A token is one of the         *)
(* characters the script's regular expressions single out ("/", ":", " ",  *)
(* "<", ">") or a word: a maximal run of other characters.  A text of      *)
(* several lines is a sequence of lines.  Every string has exactly         *)
(* one such tokenisation, so matching on tokens is matching on characters  *)
(* for the alphabet of words used here (no word of the alphabet has        *)
(* "https" or "http" as a proper suffix).                                  *)
(***************************************************************************)
EXTENDS Integers, Sequences, FiniteSets, TLC

\* ---------------------------------------------------------------- bounds
MaxUp == 2        \* how often upstream advances
MaxLen == 2       \* patches on the topic branch
MaxTagged == 2    \* iteration tags written over the life of the branch
MaxChain == 4     \* iteration tags written in a series of runs (SpecChain)

\* ------------------------------------------------------------ small helpers
Min(S) == CHOOSE x \in S : \A y \in S : x <= y
Max(S) == CHOOSE x \in S : \A y \in S : x >= y
Last(s) == s[Len(s)]

\* ------------------------------------------------------------- commit graph
\* A commit is the tip of a chain of patches on top of an upstream commit:
\* the index of that upstream commit and the number of patches.
Commit(b, p) == [base |-> b, patches |-> p]
NoCommit == [base |-> -1, patches |-> 0]
\* the commits reachable from c
Reachable(c) ==
    { Commit(u, 0) : u \in 0..c.base } \cup
    { Commit(c.base, q) : q \in 1..c.patches }
\* git rev-list a..b
RevList(a, b) == Reachable(b) \ Reachable(a)
\* (mutant: the revisions given without the three dots)
RevListSymNoDots(a, b) == Reachable(a) \cup Reachable(b)
\* git rev-list a...b (symmetric difference)
RevListSym(a, b) == RevList(a, b) \cup RevList(b, a)
\* (mutant: nothing is replayed)
RebaseNothing(c, onto) == c
\* git rebase <onto> with HEAD at c: the patches of c replayed on onto
Rebase(c, onto) == IF onto.base > c.base THEN Commit(onto.base, c.patches) ELSE c
\* git diff a..b: empty when the trees agree
Diff(a, b) == IF a = b THEN <<>> ELSE <<a, b>>

\* ----------------------------------------------------------------- text
IsWord(t) == t \notin {"/", ":", " ", "<", ">"}
\* string concatenation on tokenised strings
Concat(a, b) ==
    IF a = <<>> THEN b
    ELSE IF b = <<>> THEN a
    ELSE IF IsWord(Last(a)) /\ IsWord(b[1])
         THEN SubSeq(a, 1, Len(a) - 1) \o <<Last(a) \o b[1]>> \o Tail(b)
         ELSE a \o b

Mid(i) == "m" \o ToString(i)      \* the Message-ID of the i-th mbox

GitPrefix == <<"https", ":", "/", "/", "public-inbox.org", "/", "git", "/">>
Projects == {"Git", "Cygwin", "BusyBox"}
midUrlPrefix(proj) ==
    CASE proj = "Git" -> GitPrefix
      [] proj = "Cygwin" -> <<"https", ":", "/", "/", "www.mail-archive.com", "/",
                               "search?l=cygwin-patches@cygwin.com&q=">>
      [] proj = "BusyBox" -> <<"https", ":", "/", "/", "www.mail-archive.com", "/",
                                "search?l=busybox@busybox.net&q=">>

\* the result of String.match with one capture group
NoMatch == [ok |-> FALSE, cap |-> <<>>]
Match(c) == [ok |-> TRUE, cap |-> c]

LitAt(line, s, lit) ==
    /\ s + Len(lit) - 1 <= Len(line)
    /\ \A k \in 1..Len(lit) : line[s + k - 1] = lit[k]
\* the longest run of tokens from position i on that satisfy Ok
RECURSIVE RunEnd(_, _, _)
RunEnd(line, i, Bad) ==
    IF i > Len(line) \/ line[i] \in Bad THEN i - 1 ELSE RunEnd(line, i + 1, Bad)
Run(line, i, Bad) == SubSeq(line, i, RunEnd(line, i, Bad))

\* /<lit>.*\/([^\/]+)/ : lit, anything, a slash, then a run without slashes.
\* The match starts at the leftmost lit that is followed by such a slash; the
\* greedy .* makes the slash the last one that is followed by a non-slash.
SlashIdx(line, from) ==
    { j \in from..(Len(line) - 1) : line[j] = "/" /\ line[j + 1] # "/" }
MatchArchive(line, lit) ==
    LET starts == { s \in 1..Len(line) :
                      LitAt(line, s, lit) /\ SlashIdx(line, s + Len(lit)) # {} }
    IN IF starts = {} THEN NoMatch
       ELSE LET j == Max(SlashIdx(line, Min(starts) + Len(lit)))
            IN Match(Run(line, j + 1, {"/"}))

PublicInboxLit == <<"https", ":", "/", "/", "public-inbox.org", "/">>
MailArchiveLit == <<"https", ":", "/", "/", "www.mail-archive.com", "/">>
GmaneLit == <<"http", ":", "/", "/", "mid.gmane.org", "/">>
MessageIdLit == <<":", " ", "Message-ID", ":", " ">>

\* /http:\/\/mid.gmane.org\/(.*)/ : the rest of the line after the literal
MatchGmane(line) ==
    LET starts == { s \in 1..Len(line) : LitAt(line, s, GmaneLit) }
    IN IF starts = {} THEN NoMatch
       ELSE Match(SubSeq(line, Min(starts) + Len(GmaneLit), Len(line)))

\* /^[^ :]*: Message-ID: ([^\/]+)/
MatchHeaderEcho(line) ==
    LET k == RunEnd(line, 1, {" ", ":"}) + 1
        c == k + Len(MessageIdLit)
    IN IF LitAt(line, k, MessageIdLit) /\ c <= Len(line) /\ line[c] # "/"
       THEN Match(Run(line, c, {"/"}))
       ELSE NoMatch

\* the four patterns tried in turn on one line of the tag message
MatchLine(line) ==
    IF MatchArchive(line, PublicInboxLit).ok THEN MatchArchive(line, PublicInboxLit)
    ELSE IF MatchArchive(line, MailArchiveLit).ok THEN MatchArchive(line, MailArchiveLit)
    ELSE IF MatchGmane(line).ok THEN MatchGmane(line)
    ELSE MatchHeaderEcho(line)

\* (mutant: the id is pushed at the end)
Push(s, x) == Append(s, x)
\* in_reply_to.unshift(x)
Unshift(s, x) == <<x>> \o s

\* the .map over the lines of the tag message body, starting from chain
RECURSIVE ExtractReplyChain(_, _)
ExtractReplyChain(body, chain) ==
    IF body = <<>> THEN chain
    ELSE ExtractReplyChain(Tail(body),
            IF MatchLine(body[1]).ok THEN Unshift(chain, MatchLine(body[1]).cap)
            ELSE chain)

\* tagMessage.match(/^[\s\S]*?\n\n([\s\S]*)/) on a text given as its lines: two
\* consecutive newlines exist exactly when an inner line is empty; the group
\* is everything after the first such line.  Without a match the whole text
\* is scanned.
InnerBlanks(ls) == { i \in 2..(Len(ls) - 1) : ls[i] = <<>> }
TagBody(catfile) ==
    IF InnerBlanks(catfile) = {} THEN catfile
    ELSE SubSeq(catfile, Min(InnerBlanks(catfile)) + 1, Len(catfile))

\* git cat-file tag: the header block, an empty line, the message
CatFileTag(msg) ==
    <<<<"object">>, <<"type", " ", "commit">>, <<"tagger">>>> \o <<<<>>>> \o msg

\* ------------------------------------------------------------------ state
VARIABLES
    \* the repository
    upstream,        \* index of the tip of the upstream branch
    branch,          \* tip commit of the topic branch
    head,            \* the checkout: on the branch, or detached at a commit
    tags,            \* iteration tags: number -> [commit, date, msg]
    rebased,         \* <tag>-rebased tags: number -> commit
    remotetags,      \* the <tag>-rebased tags of the publish remote
    \* configuration
    project,         \* which project's marker commit the repository holds
    publishtoremote, \* mail.publishtoremote ("" when unset)
    upstreambranch,  \* the branch the series is based on, by name
    basecommit,      \* what the name in branch.<name>.basedon resolves to
    remoteRef,       \* what refs/remotes/<publishtoremote>/<basedon> resolves to
    \* the running script
    pc,              \* the step about to run ("idle": no run in progress)
    status,          \* how the last run ended: "", "ok" or the message of die
    redo,            \* --redo
    latesttag,       \* the selected tag (0: none)
    path,            \* which rebase branch of determineIteration is running
    patch_no, in_reply_to, interdiff,
    subject_prefix,  \* the version the subject prefix carries (0: none); the
                     \* /RFC marker of --rfc changes no decision and is left out
    messageID,       \* the Message-ID of the generated mbox
    \* observation
    ops,             \* the side-effecting commands this run has completed,
                     \* pushes to the publish remote included
    tagged,          \* how many iteration tags have been written so far
    made,            \* the rebased tag written by this run or by the last run
                     \* (forgotten once upstream advances)
    streak,          \* the number of runs so far when every one of them was a
                     \* normal run that succeeded, else -1
    resend,          \* the run before this one failed in send-mbox and the
                     \* operator has done nothing since
    \* the patch document (SpecDoc)
    series,          \* the commits upstream..branch: [author, body] each
    branchdesc,      \* branch.<name>.description, as lines (<<>>: unset)
    basedon,         \* branch.<name>.basedon ("": unset)
    url,             \* remote.<publishtoremote>.url
    lines,           \* the mbox, split into lines
    cover_letter,    \* whether format-patch was given --cover-letter
    tagmessage,      \* what generateTagMessage returned, as lines
    dashdash,        \* the footer index
    before,          \* the document and the footer index as findFooter left them
    \* one git command (SpecCalls)
    call,            \* the last command: where it is issued, how it ended
    \* git(args) of git.js (SpecSpawn)
    child,           \* the child process
    stdout,          \* what the 'data' handler of child.stdout has collected
    stderr,          \* what the 'data' handler of child.stderr has collected
    promise,         \* the promise spawn returned
    events,          \* the events the child has emitted, in order
    \* spawn(command, args, stdin, options) (SpecShapes)
    argv,            \* the third and the fourth argument of the call
    spawned,         \* what spawn of promising-spawn.js made of the call
    pleased          \* what spawnPlease, its original, makes of the same call

repo == <<upstream, branch, head, tags, rebased, remotetags>>
config == <<project, publishtoremote, upstreambranch, basecommit, remoteRef>>
proc == <<pc, status, redo, latesttag, path, patch_no, subject_prefix,
          in_reply_to, interdiff, messageID, ops>>
document == <<series, branchdesc, basedon, url, lines, cover_letter,
              tagmessage, dashdash, before>>
subprocess == <<call, child, stdout, stderr, promise, events, argv, spawned,
                pleased>>
vars == <<repo, config, proc, tagged, made, streak, resend, document, subprocess>>

OnBranch == [detached |-> FALSE, at |-> NoCommit]
Detached(c) == [detached |-> TRUE, at |-> c]
UpstreamTip == Commit(upstream, 0)
NoSubjectPrefix == 0      \* no version suffix
NoRebase == [tag |-> 0, commit |-> NoCommit, run |-> ""]
NotYet == [lines |-> <<>>, dashdash |-> 0]
\* JavaScript's undefined
Undefined == [type |-> "undefined"]
\* spawn has not been called
NotCalled == [state |-> "none", options |-> Undefined, written |-> "",
              promise |-> "none"]
\* no command is followed and nothing is spawned through git.js
NoSubprocess ==
    /\ call = [line |-> 0, gentle |-> FALSE, status |-> 0, stdout |-> <<>>,
               returned |-> <<>>]
    /\ child = [state |-> "none", code |-> 0]
    /\ stdout = <<>> /\ stderr = <<>>
    /\ promise = [state |-> "none", value |-> <<>>] /\ events = <<>>
    /\ argv = [stdin |-> Undefined, options |-> Undefined]
    /\ spawned = NotCalled /\ pleased = NotCalled
\* the series is based on the upstream branch of the project, and the name
\* in branch.<name>.basedon, if there is one, resolves to nothing
NoBase ==
    /\ upstreambranch = "upstream"
    /\ basecommit = NoCommit /\ remoteRef = NoCommit
\* no document is looked at
NoDocument ==
    /\ series = <<>> /\ branchdesc = <<>> /\ basedon = "" /\ url = <<>>
    /\ lines = <<>> /\ cover_letter = FALSE /\ tagmessage = <<>>
    /\ dashdash = 0 /\ before = NotYet

\* the variables of a process that has not run determineIteration yet
FreshProc(r) ==
    /\ redo = r
    /\ latesttag = 0 /\ path = "" /\ patch_no = 0
    /\ subject_prefix = NoSubjectPrefix
    /\ in_reply_to = <<>> /\ interdiff = <<>> /\ messageID = <<>>
    /\ ops = <<>>

Init ==
    /\ upstream = 0
    /\ branch = Commit(0, 1)
    /\ head = OnBranch
    /\ tags = <<>> /\ rebased = <<>> /\ remotetags = <<>>
    /\ NoBase
    /\ project \in Projects
    /\ publishtoremote \in {"", "origin"}
    /\ pc = "idle" /\ status = ""
    /\ FreshProc(FALSE)
    /\ tagged = 0
    /\ made = NoRebase
    /\ streak = 0
    /\ resend = FALSE
    /\ NoDocument
    /\ NoSubprocess

\* ------------------------------------------------- git commands on the model
\* git for-each-ref --sort=-taggerdate refs/tags/<branch>-v*[0-9], split at
\* newlines: tag numbers, newest first; an empty output splits into one empty
\* string (0 here)
\* (mutant: sorted by taggerdate without the minus, oldest first)
ForEachRefOldestFirst ==
    LET n == Cardinality(DOMAIN tags)
        AtDate(d) == CHOOSE t \in DOMAIN tags : tags[t].date = d
    IN IF n = 0 THEN <<0>> ELSE [i \in 1..n |-> AtDate(i)]
ForEachRef ==
    LET n == Cardinality(DOMAIN tags)
        AtDate(d) == CHOOSE t \in DOMAIN tags : tags[t].date = d
    IN IF n = 0 THEN <<0>> ELSE [i \in 1..n |-> AtDate(n + 1 - i)]

\* git tag -a [-f] <branch>-v<n> at commit c with message msg.  The tagger
\* date is kept as the rank of the tag among the tags by creation time.
CreateTag(ts, n, c, msg) ==
    LET others == DOMAIN ts \ {n}
        shift(t) == IF n \in DOMAIN ts /\ ts[t].date > ts[n].date
                    THEN ts[t].date - 1 ELSE ts[t].date
    IN [t \in others \cup {n} |->
          IF t = n
          THEN [commit |-> c, date |-> Cardinality(others) + 1, msg |-> msg]
          ELSE [ts[t] EXCEPT !.date = shift(t)]]

\* the ref r -> c added to (or moved in) a set of refs
SetRef(refs, r, c) == [t \in DOMAIN refs \cup {r} |-> IF t = r THEN c ELSE refs[t]]

\* die(): the process exits with the message; nothing else changes
Die(msg) ==
    /\ pc' = "idle" /\ status' = msg
    /\ streak' = -1
    /\ UNCHANGED <<redo, latesttag, path, patch_no, subject_prefix,
                   in_reply_to, interdiff, messageID, ops>>

Log(op) == ops' = Append(ops, op)
\* the run ends well: one more run of an unbroken series of normal runs
Succeeded(n) == IF n >= 0 THEN n + 1 ELSE -1

\* --------------------------------------------------------- the operator
\* Between runs the operator works on the repository.  The variables of the
\* script do not outlive its process.
ForgetProc ==
    /\ pc' = "idle" /\ status' = ""
    /\ redo' = FALSE
    /\ latesttag' = 0 /\ path' = "" /\ patch_no' = 0
    /\ subject_prefix' = NoSubjectPrefix
    /\ in_reply_to' = <<>> /\ interdiff' = <<>> /\ messageID' = <<>>
    /\ ops' = <<>>
    /\ resend' = FALSE
\* what an earlier run than the last one made is of no interest any more
KeepMade == made' = IF made.run = "this" THEN made ELSE NoRebase

\* git commit: one more patch on the branch
UserCommitUpTo(limit) ==
    /\ pc = "idle" /\ ~head.detached
    /\ branch.patches < limit
    /\ branch' = Commit(branch.base, branch.patches + 1)
    /\ ForgetProc
    /\ UNCHANGED <<upstream, head, tags, rebased, remotetags,
                   config, tagged, streak>>
    /\ KeepMade
    /\ UNCHANGED <<document, subprocess>>

UserCommit == UserCommitUpTo(MaxLen)

\* git reset --hard HEAD^: the last patch is dropped
UserDrop ==
    /\ pc = "idle" /\ ~head.detached
    /\ branch.patches > 1
    /\ branch' = Commit(branch.base, branch.patches - 1)
    /\ ForgetProc
    /\ UNCHANGED <<upstream, head, tags, rebased, remotetags,
                   config, tagged, streak>>
    /\ KeepMade
    /\ UNCHANGED <<document, subprocess>>

\* git fetch: upstream has advanced
UserFetch ==
    /\ pc = "idle" /\ ~head.detached
    /\ upstream < MaxUp
    /\ upstream' = upstream + 1
    /\ ForgetProc
    /\ made' = NoRebase
    /\ UNCHANGED <<branch, head, tags, rebased, remotetags,
                   config, tagged, streak>>
    /\ UNCHANGED <<document, subprocess>>

\* git rebase <upstream> on the topic branch
UserRebase ==
    /\ pc = "idle" /\ ~head.detached
    /\ upstream > branch.base
    /\ branch' = Commit(upstream, branch.patches)
    /\ ForgetProc
    /\ UNCHANGED <<upstream, head, tags, rebased, remotetags,
                   config, tagged, streak>>
    /\ KeepMade
    /\ UNCHANGED <<document, subprocess>>

\* git checkout <branch> after a run left the checkout detached
UserCheckout ==
    /\ pc = "idle" /\ head.detached
    /\ head' = OnBranch
    /\ ForgetProc
    /\ UNCHANGED <<upstream, branch, tags, rebased, remotetags,
                   config, tagged, streak>>
    /\ KeepMade
    /\ UNCHANGED <<document, subprocess>>

\* ------------------------------------------------------------ the script
\* The script is started (with or without --redo) and runs its checks
\* before determineIteration: getBranchName dies unless HEAD is a branch,
\* parseCommandLineOptions dies without a publish remote, determineBaseBranch
\* dies unless the branch contains upstream.
startup ==
    /\ pc = "idle"
    /\ redo' \in BOOLEAN
    /\ latesttag' = 0 /\ path' = "" /\ patch_no' = 0
    /\ subject_prefix' = NoSubjectPrefix
    /\ in_reply_to' = <<>> /\ interdiff' = <<>> /\ messageID' = <<>>
    /\ ops' = <<>>
    /\ made' = IF made.run = "this" THEN [made EXCEPT !.run = "last"] ELSE NoRebase
    /\ IF head.detached
       THEN pc' = "idle" /\ status' = "Not on a branch"
       ELSE IF publishtoremote = ""
       THEN pc' = "idle" /\ status' = "No valid remote"
       ELSE IF RevList(branch, UpstreamTip) # {}
       THEN pc' = "idle" /\ status' = "not rebased"
       ELSE pc' = "determineIteration" /\ status' = ""
    /\ streak' = IF pc' = "idle" \/ redo' THEN -1 ELSE streak
    /\ UNCHANGED <<repo, config, tagged>>
    /\ resend' = (status = "git send-mbox failed")
    /\ UNCHANGED <<document, subprocess>>

\* (mutant: --redo selects like a normal run)
SelectTagNewest(refs, r) == IF Len(refs) > 0 THEN refs[1] ELSE 0
\* latesttag as selected from the output of for-each-ref
SelectTag(refs, r) ==
    IF r THEN (IF Len(refs) > 1 THEN refs[2] ELSE 0)
         ELSE (IF Len(refs) > 0 THEN refs[1] ELSE 0)

\* (mutant: the first iteration is numbered like the tag that is missing)
PatchNoOfTag(lt) == IF lt = 0 THEN 0 ELSE lt + 1
\* patch_no: 1 without a tag, else the number in the tag's name plus one
PatchNo(lt) == IF lt = 0 THEN 1 ELSE lt + 1

\* (mutant: an existing rebased tag is always rebuilt)
IsStaleAlways(c) == TRUE
\* git rev-list <tag>..<upstreambranch> is not empty
IsStale(c) == RevList(c, UpstreamTip) # {}

\* determineIteration up to its first command with a side effect
determineIteration ==
    /\ pc = "determineIteration"
    /\ LET lt == SelectTag(ForEachRef, redo) IN
       /\ latesttag' = lt
       /\ IF lt = 0
          THEN /\ patch_no' = PatchNo(lt)
               /\ subject_prefix' = NoSubjectPrefix
               /\ interdiff' = <<>>
               /\ pc' = "generateMBox"
               /\ UNCHANGED <<status, in_reply_to, path>>
               /\ streak' = streak
          ELSE IF RevListSym(branch, tags[lt].commit) = {}
          THEN /\ pc' = "idle" /\ status' = "already submitted"
               /\ streak' = -1
               /\ UNCHANGED <<patch_no, subject_prefix, interdiff, in_reply_to, path>>
          ELSE /\ patch_no' = PatchNo(lt)
               /\ subject_prefix' = PatchNo(lt)
               /\ in_reply_to' =
                    ExtractReplyChain(TagBody(CatFileTag(tags[lt].msg)), in_reply_to)
               /\ status' = status
               /\ streak' = streak
               /\ IF ~IsStale(tags[lt].commit)
                  THEN /\ interdiff' = Diff(tags[lt].commit, branch)
                       /\ pc' = "generateMBox" /\ path' = path
                  ELSE IF lt \in DOMAIN rebased
                  THEN IF IsStale(rebased[lt])
                       THEN pc' = "checkout" /\ path' = "stale"
                                             /\ interdiff' = interdiff
                       ELSE pc' = "diff" /\ path' = "fresh"
                                         /\ interdiff' = interdiff
                  ELSE pc' = "checkout" /\ path' = "missing"
                                        /\ interdiff' = interdiff
    /\ UNCHANGED <<redo, messageID, ops>>
    /\ UNCHANGED <<repo, config, tagged, made>>
    /\ resend' = resend
    /\ UNCHANGED <<document, subprocess>>

\* git checkout <rebasedtag>^0 (stale) or <latesttag>^0 (missing)
checkoutDetached ==
    /\ pc = "checkout"
    /\ \/ /\ head' = Detached(IF path = "stale" THEN rebased[latesttag]
                                                 ELSE tags[latesttag].commit)
          /\ Log("checkout")
          /\ pc' = "rebase"
          /\ UNCHANGED <<status, redo, latesttag, path, patch_no,
                         subject_prefix, in_reply_to, interdiff, messageID,
                         streak>>
       \/ /\ Die("git checkout failed")
          /\ head' = head
    /\ UNCHANGED <<upstream, branch, tags, rebased, remotetags,
                   config, tagged, made>>
    /\ resend' = resend
    /\ UNCHANGED <<document, subprocess>>

\* (mutant: a rebase that stops is followed by a checkout of the branch)
rebaseRestoring ==
    /\ pc = "rebase"
    /\ \/ /\ head' = Detached(Rebase(head.at, UpstreamTip))
          /\ Log("rebase")
          /\ pc' = "tag"
          /\ UNCHANGED <<status, redo, latesttag, path, patch_no,
                         subject_prefix, in_reply_to, interdiff, messageID,
                         streak>>
       \/ /\ head' = OnBranch
          /\ Die("git rebase failed")
    /\ UNCHANGED <<upstream, branch, tags, rebased, remotetags,
                   config, tagged, made>>
    /\ resend' = resend
    /\ UNCHANGED <<document, subprocess>>
\* git rebase <upstreambranch>; a rebase that stops leaves HEAD on upstream
\* with only part of the patches applied
rebase ==
    /\ pc = "rebase"
    /\ \/ /\ head' = Detached(Rebase(head.at, UpstreamTip))
          /\ Log("rebase")
          /\ pc' = "tag"
          /\ UNCHANGED <<status, redo, latesttag, path, patch_no,
                         subject_prefix, in_reply_to, interdiff, messageID,
                         streak>>
       \/ /\ \E k \in 0..(head.at.patches - 1) :
                head' = Detached(Commit(upstream, k))
          /\ Die("git rebase failed")
    /\ UNCHANGED <<upstream, branch, tags, rebased, remotetags,
                   config, tagged, made>>
    /\ resend' = resend
    /\ UNCHANGED <<document, subprocess>>

\* git tag -f -a <rebasedtag> (stale) or git tag -F - -a <rebasedtag> (missing)
tagRebased ==
    /\ pc = "tag"
    /\ \/ /\ (path = "stale" \/ latesttag \notin DOMAIN rebased)
          /\ rebased' = SetRef(rebased, latesttag, head.at)
          /\ Log(IF path = "stale" THEN "tag -f rebased" ELSE "tag rebased")
          /\ made' = [tag |-> latesttag, commit |-> head.at, run |-> "this"]
          /\ remotetags' = remotetags
          /\ pc' = "push"
          /\ UNCHANGED <<status, redo, latesttag, path, patch_no,
                         subject_prefix, in_reply_to, interdiff, messageID,
                         streak>>
       \/ /\ Die("git tag rebased failed")
          /\ UNCHANGED <<rebased, remotetags, made>>
    /\ UNCHANGED <<upstream, branch, head, tags,
                   config, tagged>>
    /\ resend' = resend
    /\ UNCHANGED <<document, subprocess>>

\* if (publishtoremote) git push <remote> [+]<rebasedtag>; what the push
\* leaves on the publish remote is followed in SpecRemote
pushRebased ==
    /\ pc = "push"
    /\ IF publishtoremote = ""
       THEN /\ pc' = "restore"
            /\ UNCHANGED <<status, ops, streak>>
       ELSE \/ /\ Log(IF path = "stale" THEN "push +rebased" ELSE "push rebased")
               /\ pc' = "restore" /\ status' = status
               /\ streak' = streak
            \/ /\ pc' = "idle" /\ status' = "git push rebased failed"
               /\ ops' = ops
               /\ streak' = -1
    /\ UNCHANGED <<redo, latesttag, path, patch_no, subject_prefix,
                   in_reply_to, interdiff, messageID>>
    /\ UNCHANGED <<repo, config, tagged, made>>
    /\ resend' = resend
    /\ UNCHANGED <<document, subprocess>>

\* (mutant: the branch is not checked out again)
checkoutBranchSkipped ==
    /\ pc = "restore"
    /\ \/ /\ head' = head
          /\ Log("checkout branch")
          /\ pc' = "diff"
          /\ UNCHANGED <<status, redo, latesttag, path, patch_no,
                         subject_prefix, in_reply_to, interdiff, messageID,
                         streak>>
       \/ /\ Die("git checkout failed")
          /\ head' = head
    /\ UNCHANGED <<upstream, branch, tags, rebased, remotetags,
                   config, tagged, made>>
    /\ resend' = resend
    /\ UNCHANGED <<document, subprocess>>

\* git checkout <shortname>
checkoutBranch ==
    /\ pc = "restore"
    /\ \/ /\ head' = OnBranch
          /\ Log("checkout branch")
          /\ pc' = "diff"
          /\ UNCHANGED <<status, redo, latesttag, path, patch_no,
                         subject_prefix, in_reply_to, interdiff, messageID,
                         streak>>
       \/ /\ Die("git checkout failed")
          /\ head' = head
    /\ UNCHANGED <<upstream, branch, tags, rebased, remotetags,
                   config, tagged, made>>
    /\ resend' = resend
    /\ UNCHANGED <<document, subprocess>>

\* interdiff = git diff <rebasedtag>..<branchname>
diffRebased ==
    /\ pc = "diff"
    /\ interdiff' = Diff(rebased[latesttag], branch)
    /\ pc' = "generateMBox"
    /\ UNCHANGED <<status, redo, latesttag, path, patch_no,
                   subject_prefix, in_reply_to, messageID, ops, streak>>
    /\ UNCHANGED <<repo, config, tagged, made>>
    /\ resend' = resend
    /\ UNCHANGED <<document, subprocess>>

HeadCommit == IF head.detached THEN head.at ELSE branch

\* generateMBox and the passes over the document up to insertLinks: the
\* mbox carries a new Message-ID (numbered after the Message-IDs that made
\* it into a tag); a branch of several patches needs a description
generateMBoxUpTo(limit) ==
    /\ pc = "generateMBox"
    /\ tagged < limit
    /\ \E description \in BOOLEAN :
         IF ~description /\ 1 < Cardinality(RevList(UpstreamTip, branch))
         THEN Die("needs a description")
         ELSE /\ messageID' = <<Mid(tagged + 1)>>
              /\ pc' = "generateTagObject"
              /\ UNCHANGED <<status, redo, latesttag, path, patch_no,
                             subject_prefix, in_reply_to, interdiff, ops,
                             streak>>
    /\ UNCHANGED <<repo, config, tagged, made>>
    /\ resend' = resend
    /\ UNCHANGED <<document, subprocess>>

generateMBox == generateMBoxUpTo(MaxTagged)

\* the summary line of a commit.  In Spec, SpecChain and SpecExtract it
\* stands for the text generateTagMessage returns, whose shape does not
\* matter there; SpecDoc computes that text from the commit and the mbox.
Summary == <<"Fix", " ", "it">>

\* '\nIn-Reply-To: ' + midUrlPrefix + id, for each id of the chain in turn
RECURSIVE InReplyToLines(_, _)
InReplyToLines(prefix, chain) ==
    IF chain = <<>> THEN <<>>
    ELSE <<Concat(<<"In-Reply-To", ":", " ">>, Concat(prefix, chain[1]))>>
         \o InReplyToLines(prefix, Tail(chain))

\* tagmessage += '\n\nSubmitted-As: ' + midUrlPrefix + messageID, then the
\* In-Reply-To lines
SubmittedAs(prefix, mid) == Concat(<<"Submitted-As", ":", " ">>, Concat(prefix, mid))
TagMessage(summary, prefix, mid, chain) ==
    <<summary, <<>>, SubmittedAs(prefix, mid)>> \o InReplyToLines(prefix, chain)

\* (mutant: -f is always passed)
ForceAlways(r) == TRUE
\* !redo || args.push('-f')
Force(r) == r

\* generateTagObject: git tag -F - -a [-f] <branch>-v<patch_no>
generateTagObject ==
    /\ pc = "generateTagObject"
    /\ \/ /\ (Force(redo) \/ patch_no \notin DOMAIN tags)
          /\ tags' = CreateTag(tags, patch_no, HeadCommit,
                        TagMessage(Summary, midUrlPrefix(project), messageID,
                                   in_reply_to))
          /\ Log(IF Force(redo) THEN "tag -f" ELSE "tag")
          /\ tagged' = tagged + 1
          /\ pc' = "sendMBox"
          /\ UNCHANGED <<status, redo, latesttag, path, patch_no,
                         subject_prefix, in_reply_to, interdiff, messageID,
                         streak>>
       \/ /\ Die("git tag failed")
          /\ UNCHANGED <<tags, tagged>>
    /\ UNCHANGED <<upstream, branch, head, rebased, remotetags,
                   config, made>>
    /\ resend' = resend
    /\ UNCHANGED <<document, subprocess>>

\* (mutant: a failed send-mbox does not end the run)
sendMBoxGentle ==
    /\ pc = "sendMBox"
    /\ \/ /\ Log("send")
          /\ pc' = "publishBranch"
          /\ UNCHANGED <<status, redo, latesttag, path, patch_no,
                         subject_prefix, in_reply_to, interdiff, messageID,
                         streak>>
       \/ /\ pc' = "publishBranch" /\ status' = "git send-mbox failed"
          /\ UNCHANGED <<redo, latesttag, path, patch_no, subject_prefix,
                         in_reply_to, interdiff, messageID, ops, streak>>
    /\ UNCHANGED <<repo, config, tagged, made>>
    /\ resend' = resend
    /\ UNCHANGED <<document, subprocess>>
\* sendMBox: git send-mbox
sendMBox ==
    /\ pc = "sendMBox"
    /\ \/ /\ Log("send")
          /\ pc' = "publishBranch"
          /\ UNCHANGED <<status, redo, latesttag, path, patch_no,
                         subject_prefix, in_reply_to, interdiff, messageID,
                         streak>>
       \/ Die("git send-mbox failed")
    /\ UNCHANGED <<repo, config, tagged, made>>
    /\ resend' = resend
    /\ UNCHANGED <<document, subprocess>>

\* publishBranch: git push <remote> +<branchname> [+]<tagname>
publishBranch ==
    /\ pc = "publishBranch"
    /\ IF publishtoremote = ""
       THEN /\ pc' = "idle" /\ status' = "ok"
            /\ ops' = ops
            /\ streak' = Succeeded(streak)
       ELSE \/ /\ Log(IF redo THEN "push +tag" ELSE "push tag")
               /\ pc' = "idle" /\ status' = "ok"
               /\ streak' = Succeeded(streak)
            \/ /\ pc' = "idle" /\ status' = "git push failed"
               /\ ops' = ops
               /\ streak' = -1
    /\ UNCHANGED <<redo, latesttag, path, patch_no, subject_prefix,
                   in_reply_to, interdiff, messageID>>
    /\ UNCHANGED <<repo, config, tagged, made>>
    /\ resend' = resend
    /\ UNCHANGED <<document, subprocess>>

Operator == UserCommit \/ UserDrop \/ UserFetch \/ UserRebase \/ UserCheckout

Next ==
    \/ Operator
    \/ startup
    \/ determineIteration
    \/ checkoutDetached
    \/ rebase
    \/ tagRebased
    \/ pushRebased
    \/ checkoutBranch
    \/ diffRebased
    \/ generateMBox
    \/ generateTagObject
    \/ sendMBox
    \/ publishBranch

Spec == Init /\ [][Next]_vars

\* ------------------------------------------------ runs and the publish remote
\* The runs of Spec, with the rebased tags of the publish remote followed: a
\* push of a rebased tag that goes through leaves the tag on the remote at
\* the commit the local tag is at, a push that fails leaves the remote as it
\* was.  No other command of the script sends a rebased tag anywhere.
pushRebasedRemote ==
    /\ pc = "push"
    /\ IF publishtoremote = ""
       THEN /\ pc' = "restore"
            /\ UNCHANGED <<status, ops, streak, remotetags>>
       ELSE \/ /\ remotetags' = SetRef(remotetags, latesttag, rebased[latesttag])
               /\ Log(IF path = "stale" THEN "push +rebased" ELSE "push rebased")
               /\ pc' = "restore" /\ status' = status
               /\ streak' = streak
            \/ /\ pc' = "idle" /\ status' = "git push rebased failed"
               /\ UNCHANGED <<ops, remotetags>>
               /\ streak' = -1
    /\ UNCHANGED <<redo, latesttag, path, patch_no, subject_prefix,
                   in_reply_to, interdiff, messageID>>
    /\ UNCHANGED <<upstream, branch, head, tags, rebased, config, tagged, made>>
    /\ resend' = resend
    /\ UNCHANGED <<document, subprocess>>

NextRemote ==
    \/ Operator
    \/ startup
    \/ determineIteration
    \/ checkoutDetached
    \/ rebase
    \/ tagRebased
    \/ pushRebasedRemote
    \/ checkoutBranch
    \/ diffRebased
    \/ generateMBox
    \/ generateTagObject
    \/ sendMBox
    \/ publishBranch

SpecRemote == Init /\ [][NextRemote]_vars

\* ------------------------------------------- a series of runs on one branch
\* The branch grows by a patch between the runs; upstream stands still, so
\* no run has anything to rebase.
UserCommitMore == UserCommitUpTo(MaxChain + 1)
generateMBoxChain == generateMBoxUpTo(MaxChain)

NextChain ==
    \/ UserCommitMore
    \/ startup
    \/ determineIteration
    \/ generateMBoxChain
    \/ generateTagObject
    \/ sendMBox
    \/ publishBranch

SpecChain == Init /\ [][NextChain]_vars

\* ------------------------------------- a run on a branch tagged by hand
\* The tag v1 was not written by the script: after its summary the message
\* has two lines, each a trailer with a link of one of the recognised
\* shapes, or a line that is no link.
IdA == <<"idA">>
IdB == <<"idB">>
Trailer(key, value) == Concat(<<key, ":", " ">>, value)
Links(id) ==
    { Trailer("In-Reply-To", Concat(GitPrefix, id)),
      Trailer("In-Reply-To",
              Concat(MailArchiveLit \o <<"git@vger.kernel.org", "/">>, id)),
      Trailer("In-Reply-To", Concat(GmaneLit, id)),
      Trailer("Submitted-As", Concat(<<"Message-ID", ":", " ">>, id)) }
NoLink == <<"Signed-off-by", ":", " ", "A">>
Legacy(la, lb) == <<Summary, <<>>, la, lb>>

InitExtract ==
    /\ upstream = 0
    /\ branch = Commit(0, 2)
    /\ head = OnBranch
    /\ \E la \in Links(IdA) \cup {NoLink}, lb \in Links(IdB) \cup {NoLink} :
         tags = [t \in {1} |->
                   [commit |-> Commit(0, 1), date |-> 1, msg |-> Legacy(la, lb)]]
    /\ rebased = <<>> /\ remotetags = <<>>
    /\ NoBase
    /\ project \in Projects
    /\ publishtoremote \in {"", "origin"}
    /\ pc = "idle" /\ status = ""
    /\ FreshProc(FALSE)
    /\ tagged = 1
    /\ made = NoRebase
    /\ streak = -1
    /\ resend = FALSE
    /\ NoDocument
    /\ NoSubprocess

NextExtract ==
    \/ startup
    \/ determineIteration

SpecExtract == InitExtract /\ [][NextExtract]_vars

\* ------------------------------------------------ the document of a run
\* SpecDoc follows one run from generateMBox on, with the mbox as text.
MaxSeries == 2    \* patches of the series whose mbox is generated

Blank == <<>>
\* JavaScript arrays count from 0
At(ls, i) == ls[i + 1]
\* Array.prototype.splice(start, deleteCount, ...items); start and
\* deleteCount are clamped to the array
Splice(ls, start, del, items) ==
    LET s == Min({start, Len(ls)})
        d == Min({del, Len(ls) - s})
    IN SubSeq(ls, 1, s) \o items \o SubSeq(ls, s + d + 1, Len(ls))

Header(name, value) == Concat(<<name, ":", " ">>, value)
Me == <<"Me", " ", "<", "me@x", ">">>
Ann == <<"Ann", " ", "<", "ann@x", ">">>
\* git var GIT_AUTHOR_IDENT
AuthorIdent == Me \o <<" ", "1500000000", " ", "+0000">>

\* commit messages: the summary line, then nothing, a paragraph, or a
\* paragraph and a trailer paragraph
\* what a commit changes: the lines of its diff
DiffBody == << <<"diff", " ", "--git", " ", "a", "/", "f", " ", "b", "/", "f">>,
               <<"+new">> >>
Patches ==
    LET why == <<"It", " ", "was", " ", "broken.">> IN
    [author : {Me, Ann},
     body : { <<>>, <<why>>, <<why, Blank, Header("Signed-off-by", Me)>> },
     diff : { DiffBody, DiffBody \o << <<"+more">> >> }]
\* the commits after the first have a summary only and the short diff
SeriesOf(n) ==
    { cs \in [1..n -> Patches] :
        \A k \in 2..n : cs[k].body = <<>> /\ cs[k].diff = DiffBody }
\* branch descriptions: unset, a title, a title with a second line, a title
\* and a paragraph
Descriptions ==
    { <<>>, << <<"Title">> >>, << <<"Title">>, <<"Body.">> >>,
      << <<"Title">>, Blank, <<"Body.">> >> }

\* git cat-file commit <branchname>: the headers, a blank line, the message
CatFileCommit(c) ==
    << <<"tree", " ", "0a">>, <<"parent", " ", "0b">>,
       Concat(<<"author", " ">>, c.author), Concat(<<"committer", " ">>, Me),
       Blank, Summary >>
    \o (IF c.body = <<>> THEN <<>> ELSE <<Blank>> \o c.body)

\* --- git format-patch --thread --stdout --add-header=... --base <upstream>
\*     --to=... --cc=... [--in-reply-to=...] [--subject-prefix=...]
\*     [--cover-letter] <upstream>..<branch>, split at newlines
Sha(k) == "c0ffee" \o ToString(k)
SeparatorTail == <<" ", "Mon", " ", "Sep", " ", "17", " ",
                   "00", ":", "00", ":", "00", " ", "2001">>
Separator(k) == <<"From", " ", Sha(k)>> \o SeparatorTail
SignatureLine == <<"--", " ">>
DiffstatDelimiter == <<"---">>
BlurbHere == <<"***", " ", "BLURB", " ", "HERE", " ", "***">>
SubjectHere == <<" ", "***", " ", "SUBJECT", " ", "HERE", " ", "***">>
Diffstat == <<" ", "f", " ", "|", " ", "1", " ", "+">>
BaseCommit == <<"base-commit", ":", " ", Sha(0)>>

\* [PATCH], [PATCH v2], [PATCH 1/2], [PATCH v2 1/2]
SubjectTag(prefix, k, n, numbered) ==
    Concat(Concat(<<"[PATCH">>,
                  IF prefix = NoSubjectPrefix THEN <<>>
                  ELSE <<" ", "v" \o ToString(prefix)>>),
           Concat(IF numbered THEN <<" ", ToString(k), "/", ToString(n)>>
                  ELSE <<>>,
                  <<"]">>))
\* the Message-ID of the k-th mail of the mbox; the first is Mid(i)
MailId(i, k) == IF k = 1 THEN Mid(i) ELSE Mid(i) \o "." \o ToString(k)
References(id) ==
    << Header("In-Reply-To", <<"<", id, ">">>),
       Header("References", <<"<", id, ">">>) >>
MailHeader(sha, id, refs, from, subject) ==
    << Separator(sha), Header("Message-Id", <<"<", id, ">">>) >>
    \o refs
    \o << Header("From", from),
          Header("Date", <<"Mon,", " ", "3", " ", "Apr", " ", "2017">>),
          Header("Subject", subject),
          Header("Fcc", <<"Sent">>),
          Header("Content-Type",
                 <<"text", "/", "plain;", " ", "charset=UTF-8">>),
          Header("To", <<"git@vger.kernel.org">>),
          Header("Cc", <<"Rev", " ", "<", "rev@x", ">">>),
          Blank >>
MailFooter == <<SignatureLine, <<"2.11.0">>, Blank>>
\* the cover letter as format-patch writes it: the placeholders, then the
\* branch description, the shortlog and the diffstat
CoverLetter(id, refs, prefix, n, desc) ==
    MailHeader(0, id, refs, Me,
               Concat(SubjectTag(prefix, 0, n, TRUE), SubjectHere))
    \o <<BlurbHere, Blank>> \o desc
    \o <<Blank, <<"Shortlog">>, Blank, Diffstat, Blank, BaseCommit>>
    \o MailFooter
PatchMail(k, id, refs, prefix, n, numbered, c, last) ==
    MailHeader(k, id, refs, c.author,
               Concat(SubjectTag(prefix, k, n, numbered), <<" ">> \o Summary))
    \o c.body
    \o <<DiffstatDelimiter, Diffstat, Blank>> \o c.diff
    \o (IF last /\ ~numbered THEN <<Blank, BaseCommit>> ELSE <<>>)
    \o MailFooter
RECURSIVE PatchMails(_, _, _, _, _)
PatchMails(k, i, prefix, cs, refs) ==
    IF k > Len(cs) THEN <<>>
    ELSE PatchMail(k, MailId(i, k + 1), refs, prefix, Len(cs), TRUE, cs[k],
                   k = Len(cs))
         \o PatchMails(k + 1, i, prefix, cs, refs)
FormatPatch(cs, desc, cover, prefix, i, reply) ==
    LET refs == IF reply = <<>> THEN <<>> ELSE References(Last(reply)[1]) IN
    IF cover
    THEN CoverLetter(MailId(i, 1), refs, prefix, Len(cs), desc)
         \o PatchMails(1, i, prefix, cs, References(MailId(i, 1)))
    ELSE PatchMail(1, MailId(i, 1), refs, prefix, 1, FALSE, cs[1], TRUE)

\* --- insertCcAndFromLines
\* ident.match(/.*>/)[0]: up to the last ">"
thisauthor(ident) ==
    LET gts == { i \in 1..Len(ident) : ident[i] = ">" } IN
    IF gts = {} THEN <<>> ELSE SubSeq(ident, 1, Max(gts))
\* /^From [0-9a-f]{40} Mon Sep 17 00:00:00 2001$/
separatorRegex(line) ==
    /\ Len(line) = Len(Separator(0))
    /\ line[1] = "From" /\ line[2] = " " /\ line[3] \in { Sha(k) : k \in 0..(MaxSeries + 1) }
    /\ SubSeq(line, 4, Len(line)) = SeparatorTail
\* /^(From|Cc): (.*)/
MatchFromCc(line) ==
    IF Len(line) >= 3 /\ line[1] \in {"From", "Cc"} /\ line[2] = ":" /\ line[3] = " "
    THEN [ok |-> TRUE, name |-> line[1], value |-> SubSeq(line, 4, Len(line))]
    ELSE [ok |-> FALSE, name |-> "", value |-> <<>>]
\* the result of a pass that may die
Done(ls) == [lines |-> ls, died |-> ""]
Died(ls, msg) == [lines |-> ls, died |-> msg]
\* the inner loop: the header lines from i up to the blank line
RECURSIVE ScanHeader(_, _)
ScanHeader(ls, h) ==
    IF h.i < Len(ls) /\ At(ls, h.i) # Blank
    THEN LET match == MatchFromCc(At(ls, h.i)) IN
         IF match.ok /\ match.name = "From"
         THEN IF h.from >= 0
              THEN [h EXCEPT !.died = "Duplicate From: header"]
              ELSE ScanHeader(ls, [h EXCEPT !.from = h.i, !.author = match.value,
                                            !.i = h.i + 1])
         ELSE IF match.ok /\ match.value = <<"Cc">>     \* match[2] == 'Cc'
         THEN IF h.cc >= 0
              THEN [h EXCEPT !.died = "Duplicate Cc: header"]
              ELSE ScanHeader(ls, [h EXCEPT !.cc = h.i, !.cced = match.value,
                                            !.i = h.i + 1])
         ELSE ScanHeader(ls, [h EXCEPT !.i = h.i + 1])
    ELSE h
\* the rewrite of one message whose header was scanned: the lines and the
\* loop index afterwards
RewriteFrom(ls, h, this) ==
    LET ls1 == [ls EXCEPT ![h.from + 1] = Header("From", this)]
        ls2 == IF h.cc < 0
               THEN Splice(ls1, h.from + 1, 0, <<Header("Cc", h.author)>>)
               ELSE [ls1 EXCEPT ![h.cc + 1] =
                        Concat(Header("Cc", h.author),
                               Concat(<<",", " ">>, h.cced))]
        i == IF h.cc < 0 THEN h.i + 1 ELSE h.i
    IN [lines |-> Splice(ls2, i + 1, 0, <<Header("From", h.author), Blank>>),
        i |-> i]
RECURSIVE InsertCcAndFromLinesFrom(_, _, _)
InsertCcAndFromLinesFrom(ls, i, this) ==
    IF i >= Len(ls) THEN Done(ls)
    ELSE IF ~separatorRegex(At(ls, i))
    THEN InsertCcAndFromLinesFrom(ls, i + 1, this)
    ELSE LET h == ScanHeader(ls, [i |-> i + 1, from |-> -1, cc |-> -1,
                                  author |-> <<>>, cced |-> <<>>, died |-> ""]) IN
         IF h.died # "" THEN Died(ls, h.died)
         ELSE IF h.from < 0 THEN Died(ls, "Missing From: line")
         ELSE IF h.author # this
         THEN LET r == RewriteFrom(ls, h, this) IN
              InsertCcAndFromLinesFrom(r.lines, r.i + 1, this)
         ELSE InsertCcAndFromLinesFrom(ls, h.i + 1, this)

\* --- adjustCoverLetter
\* /^(Subject:.*) \*\*\* SUBJECT HERE \*\*\*$/
subjectRegex(line) ==
    LET n == Len(line) - Len(SubjectHere) IN
    IF /\ n >= 2 /\ line[1] = "Subject" /\ line[2] = ":"
       /\ SubSeq(line, n + 1, Len(line)) = SubjectHere
    THEN Match(SubSeq(line, 1, n))
    ELSE NoMatch
\* while (i < lines.length && lines[i] !== '') i++
RECURSIVE SkipToBlank(_, _)
SkipToBlank(ls, i) ==
    IF i < Len(ls) /\ At(ls, i) # Blank THEN SkipToBlank(ls, i + 1) ELSE i
\* lines[subject] += ' ' + lines[i] for the lines from i up to the blank line
RECURSIVE Fold(_, _, _)
Fold(ls, subject, i) ==
    IF i < Len(ls) /\ At(ls, i) # Blank
    THEN Fold([ls EXCEPT ![subject + 1] =
                  Concat(At(ls, subject), Concat(<<" ">>, At(ls, i)))],
              subject, i + 1)
    ELSE [lines |-> ls, i |-> i]
RECURSIVE AdjustCoverLetterFrom(_, _)
AdjustCoverLetterFrom(ls, i) ==
    IF i >= Len(ls) THEN Done(ls)
    ELSE LET match == subjectRegex(At(ls, i)) IN
         IF ~match.ok THEN AdjustCoverLetterFrom(ls, i + 1)
         ELSE LET ls1 == [ls EXCEPT ![i + 1] = match.cap]
                  body == SkipToBlank(ls1, i)
                  j == body + 1
              IN IF ~(j + 3 < Len(ls1)) THEN Died(ls1, "Could not find cover letter")
                 ELSE IF At(ls1, j) # BlurbHere THEN Died(ls1, "No BLURB line?")
                 ELSE IF At(ls1, j + 1) # Blank
                 THEN Died(ls1, "Line after BLURB not empty")
                 ELSE LET f == Fold(ls1, i, j + 2) IN
                      AdjustCoverLetterFrom(
                          Splice(f.lines, body, f.i - body, <<>>), f.i + 1)

\* --- generateTagMessage
\* .replace(/\n\n.*/, ''): the first blank line that has a line after it goes,
\* and with it the line after it
ReplaceFirstParagraphLine(ls) ==
    LET js == { j \in 1..(Len(ls) - 2) : At(ls, j) = Blank } IN
    IF js = {} THEN ls ELSE Splice(ls, Min(js), 2, <<>>)
\* /^Subject: (.*)/
MatchSubject(line) ==
    IF Len(line) >= 3 /\ line[1] = "Subject" /\ line[2] = ":" /\ line[3] = " "
    THEN Match(SubSeq(line, 4, Len(line))) ELSE NoMatch
\* while (i < lines.length && lines[i] != '-- ') tagmessage += '\n' + lines[i++]
RECURSIVE UpToSignature(_, _)
UpToSignature(ls, i) ==
    IF i < Len(ls) /\ At(ls, i) # SignatureLine
    THEN <<At(ls, i)>> \o UpToSignature(ls, i + 1) ELSE <<>>
RECURSIVE TagMessageFrom(_, _)
TagMessageFrom(ls, i) ==
    IF i >= Len(ls) THEN <<Blank>>              \* tagmessage = ''
    ELSE LET match == MatchSubject(At(ls, i)) IN
         IF ~match.ok THEN TagMessageFrom(ls, i + 1)
         ELSE <<match.cap>> \o UpToSignature(ls, SkipToBlank(ls, i))

\* --- findFooter
RECURSIVE FindSignature(_, _)
FindSignature(ls, d) ==
    IF d < Len(ls) /\ At(ls, d) # SignatureLine THEN FindSignature(ls, d + 1) ELSE d
\* while (++dashdash < lines.length && lines[dashdash - 1] !== '---') dashdash++
RECURSIVE FindDiffstat(_, _)
FindDiffstat(ls, d) ==
    IF d + 1 < Len(ls) /\ At(ls, d) # DiffstatDelimiter
    THEN FindDiffstat(ls, d + 2) ELSE d + 1

\* --- insertLinks
\* remote.<publishtoremote>.url: on GitHub by https, http or ssh, or elsewhere
Urls ==
    { <<"https", ":", "/", "/", "github.com", "/", "me", "/", "repo">>,
      <<"http", ":", "/", "/", "github.com", "/", "me", "/", "repo">>,
      <<"git@github.com", ":", "me", "/", "repo">>,
      <<"https", ":", "/", "/", "example.org", "/", "repo">> }
\* the url of the remote as the links show it ('' when not on GitHub)
NormalizeUrl(u) ==
    IF /\ Len(u) >= 6 /\ u[1] \in {"http", "https"}
       /\ SubSeq(u, 2, 6) = <<":", "/", "/", "github.com", "/">>
    THEN <<"https">> \o Tail(u)                     \* 'https' + match[1]
    ELSE IF Len(u) >= 2 /\ u[1] \in {"git@github.com", "github.com"} /\ u[2] = ":"
    THEN <<"https", ":", "/", "/", "github.com", "/">>    \* + match[1]
         \o <<IF u[1] = "git@github.com" THEN "git@" ELSE "undefined">>
    ELSE <<>>
\* shortname + '-v' + patch_no, on the branch 'topic'
TagName(n) == <<"topic-v" \o ToString(n)>>
BasedOnLines(u, base) ==
    << Concat(Header("Based-On", <<base>>), Concat(<<" ", "at", " ">>, u)),
       Concat(Header("Fetch-Base-Via", <<"git", " ", "fetch", " ">>),
              Concat(u, <<" ", base>>)) >>
PublishedAsLines(u, tagname) ==
    << Concat(Header("Published-As", u),
              Concat(<<"/", "releases", "/", "tag", "/">>, tagname)),
       Concat(Header("Fetch-It-Via", <<"git", " ", "fetch", " ">>),
              Concat(u, <<" ">> \o tagname)) >>
InsertLinks(ls, d, remote, remoteurl, base, tagname) ==
    LET u == NormalizeUrl(remoteurl)
        based == remote # "" /\ u # <<>> /\ base # ""
        published == remote # "" /\ u # <<>>
        ls1 == IF based THEN Splice(ls, d, 0, BasedOnLines(u, base)) ELSE ls
        d1 == IF based THEN d + 2 ELSE d
    IN [lines |-> IF published
                  THEN Splice(ls1, d1, 0, PublishedAsLines(u, tagname)) ELSE ls1,
        dashdash |-> IF published THEN d1 + 2 ELSE d1]

\* --- generateTagObject
\* /^Message-ID: <(.*)>/i
MatchMessageId(line) ==
    LET gts == { i \in 5..Len(line) : line[i] = ">" } IN
    IF /\ Len(line) >= 5
       /\ line[1] \in {"Message-ID", "Message-Id", "message-id"}
       /\ line[2] = ":" /\ line[3] = " " /\ line[4] = "<" /\ gts # {}
    THEN Match(SubSeq(line, 5, Max(gts) - 1)) ELSE NoMatch
RECURSIVE FirstMessageId(_, _)
FirstMessageId(ls, i) ==
    IF i >= Len(ls) THEN <<"null">>
    ELSE IF MatchMessageId(At(ls, i)).ok THEN MatchMessageId(At(ls, i)).cap
    ELSE FirstMessageId(ls, i + 1)
\* git diff <tag>..<branch>, split at newlines
InterdiffLines(d) ==
    IF d = <<>> THEN <<>>
    ELSE << <<"diff", " ", "--git", " ", "a", "/", "f", " ", "b", "/", "f">>,
            <<" ", "kept">>, <<"-old">>, <<"+new">> >>
\* (mutant: the line is inserted as it is)
QuoteNot(line) == line
\* ' ' + line
Quote(line) == Concat(<<" ">>, line)
InterdiffBlock(text, n) ==
    << Blank, Concat(<<"Interdiff", " ", "vs", " ", "v" \o ToString(n - 1)>>, <<":">>) >>
    \o [i \in 1..Len(text) |-> Quote(text[i])]

\* --- the run from generateMBox on
\* the Message-IDs of the first k runs of a series, oldest first
FirstMids(k) == [i \in 1..k |-> <<Mid(i)>>]
\* how determineIteration left the process: the first iteration, the first
\* iteration again (--redo), the second iteration with or without a
\* difference to the first, the second iteration again (--redo)
Earlier(n) ==
    [t \in 1..n |->
       [commit |-> Commit(0, MaxSeries + 1), date |-> t,
        msg |-> TagMessage(Summary, midUrlPrefix("Git"), <<Mid(t)>>,
                           FirstMids(t - 1))]]
InitDoc ==
    /\ upstream = 0
    /\ \E n \in 1..MaxSeries : series \in SeriesOf(n) /\ branch = Commit(0, n)
    /\ head = OnBranch
    /\ rebased = <<>> /\ remotetags = <<>>
    /\ NoBase
    /\ project = "Git" /\ publishtoremote = "origin"
    /\ branchdesc \in Descriptions
    /\ basedon \in {"", "base"}
    /\ url \in Urls
    /\ pc = "generateMBox" /\ status = "" /\ path = "" /\ ops = <<>>
    /\ messageID = <<>>
    /\ \/ /\ redo = FALSE /\ tags = <<>> /\ latesttag = 0 /\ patch_no = 1
          /\ subject_prefix = NoSubjectPrefix
          /\ in_reply_to = <<>> /\ interdiff = <<>>
       \/ /\ redo = TRUE /\ tags = Earlier(1) /\ latesttag = 0 /\ patch_no = 1
          /\ subject_prefix = NoSubjectPrefix
          /\ in_reply_to = <<>> /\ interdiff = <<>>
       \/ /\ redo \in BOOLEAN
          /\ tags = Earlier(IF redo THEN 2 ELSE 1)
          /\ latesttag = 1 /\ patch_no = 2 /\ subject_prefix = 2
          /\ in_reply_to = FirstMids(1)
          /\ interdiff \in {<<>>, Diff(tags[1].commit, branch)}
    /\ tagged = Cardinality(DOMAIN tags)
    /\ made = NoRebase /\ streak = -1 /\ resend = FALSE
    /\ lines = <<>> /\ cover_letter = FALSE /\ tagmessage = <<>>
    /\ dashdash = 0 /\ before = NotYet
    /\ NoSubprocess

\* die() in a step of SpecDoc
DieDoc(msg) == Die(msg) /\ UNCHANGED <<repo, config, tagged, made, resend>>
\* a step of SpecDoc that changes only the document and the position
Pass(next) ==
    /\ pc' = next
    /\ UNCHANGED <<status, redo, latesttag, path, patch_no, subject_prefix,
                   in_reply_to, interdiff, messageID, ops, streak>>
    /\ UNCHANGED <<repo, config, tagged, made, resend>>

\* generateMBox, with the mbox as text: lines = generateMBox().split('\n')
generateMBoxLines ==
    /\ pc = "generateMBox" /\ series # <<>>
    /\ LET cover == branchdesc # <<>> IN
       IF ~cover /\ 1 < Cardinality(RevList(UpstreamTip, branch))
       THEN DieDoc("needs a description") /\ UNCHANGED <<lines, cover_letter>>
       ELSE /\ cover_letter' = cover
            /\ lines' = FormatPatch(series, branchdesc, cover, subject_prefix,
                                    tagged + 1, in_reply_to)
            /\ Pass("insertCcAndFromLines")
    /\ UNCHANGED <<series, branchdesc, basedon, url, tagmessage, dashdash, before>>
    /\ UNCHANGED subprocess

insertCcAndFromLines ==
    /\ pc = "insertCcAndFromLines"
    /\ LET r == InsertCcAndFromLinesFrom(lines, 0, thisauthor(AuthorIdent)) IN
       /\ lines' = r.lines
       /\ IF r.died # "" THEN DieDoc(r.died) ELSE Pass("adjustCoverLetter")
    /\ UNCHANGED <<series, branchdesc, basedon, url, cover_letter, tagmessage,
                   dashdash, before>>
    /\ UNCHANGED subprocess

adjustCoverLetter ==
    /\ pc = "adjustCoverLetter"
    /\ LET r == IF cover_letter THEN AdjustCoverLetterFrom(lines, 0)
                ELSE Done(lines) IN
       /\ lines' = r.lines
       /\ IF r.died # "" THEN DieDoc(r.died) ELSE Pass("generateTagMessage")
    /\ UNCHANGED <<series, branchdesc, basedon, url, cover_letter, tagmessage,
                   dashdash, before>>
    /\ UNCHANGED subprocess

generateTagMessage ==
    /\ pc = "generateTagMessage"
    /\ tagmessage' = IF ~cover_letter
                     THEN ReplaceFirstParagraphLine(CatFileCommit(Last(series)))
                     ELSE TagMessageFrom(lines, 0)
    /\ Pass("findFooter")
    /\ UNCHANGED <<series, branchdesc, basedon, url, lines, cover_letter,
                   dashdash, before>>
    /\ UNCHANGED subprocess

findFooter ==
    /\ pc = "findFooter"
    /\ dashdash' = IF cover_letter THEN FindSignature(lines, 0)
                   ELSE FindDiffstat(lines, 0)
    /\ before' = [lines |-> lines, dashdash |-> dashdash']
    /\ Pass("insertLinks")
    /\ UNCHANGED <<series, branchdesc, basedon, url, lines, cover_letter,
                   tagmessage>>
    /\ UNCHANGED subprocess

insertLinks ==
    /\ pc = "insertLinks"
    /\ LET r == InsertLinks(lines, dashdash, publishtoremote, url, basedon,
                            TagName(patch_no)) IN
       lines' = r.lines /\ dashdash' = r.dashdash
    /\ Pass("generateTagObject")
    /\ UNCHANGED <<series, branchdesc, basedon, url, cover_letter, tagmessage,
                   before>>
    /\ UNCHANGED subprocess

\* generateTagObject, with the mbox as text: the tag carries the tag message
\* and the trailers; the interdiff goes into the document
generateTagObjectLines ==
    /\ pc = "generateTagObject" /\ series # <<>>
    /\ LET id == FirstMessageId(lines, 0)
           msg == tagmessage \o <<Blank, SubmittedAs(midUrlPrefix(project), id)>>
                  \o InReplyToLines(midUrlPrefix(project), in_reply_to)
       IN
       \/ /\ (Force(redo) \/ patch_no \notin DOMAIN tags)
          /\ messageID' = id
          /\ tagmessage' = msg
          /\ tags' = CreateTag(tags, patch_no, HeadCommit, msg)
          /\ Log(IF Force(redo) THEN "tag -f" ELSE "tag")
          /\ tagged' = tagged + 1
          /\ lines' = IF interdiff # <<>>
                      THEN Splice(lines, dashdash, 0,
                                  InterdiffBlock(InterdiffLines(interdiff), patch_no))
                      ELSE lines
          /\ pc' = "sendMBox"
          /\ UNCHANGED <<status, redo, latesttag, path, patch_no,
                         subject_prefix, in_reply_to, interdiff, streak>>
       \/ /\ Die("git tag failed")
          /\ messageID' = id /\ tagmessage' = msg
          /\ UNCHANGED <<tags, tagged, lines>>
    /\ UNCHANGED <<upstream, branch, head, rebased, remotetags, config, made, resend>>
    /\ UNCHANGED <<series, branchdesc, basedon, url, cover_letter, dashdash, before>>
    /\ UNCHANGED subprocess

NextDoc ==
    \/ generateMBoxLines
    \/ insertCcAndFromLines
    \/ adjustCoverLetter
    \/ generateTagMessage
    \/ findFooter
    \/ insertLinks
    \/ generateTagObjectLines
    \/ sendMBox
    \/ publishBranch

SpecDoc == InitDoc /\ [][NextDoc]_vars

\* --------------------------------------------------- the base-branch override
\* SpecBase follows a first run from determineBaseBranch to the end, over
\* what branch.<name>.basedon holds and what its name resolves to here and
\* on the publish remote.  The branch 'base', where there is one, is at the
\* commit the topic branch starts from or at a commit the topic branch does
\* not contain.
BaseCommits == {NoCommit, Commit(0, 0), Commit(1, 0)}
\* git rev-parse <upstreambranch>
UpstreamCommit(name) == IF name = "upstream" THEN UpstreamTip ELSE basecommit
InitBase ==
    /\ upstream = 0
    /\ series \in SeriesOf(1) /\ branch = Commit(0, 1)
    /\ head = OnBranch
    /\ tags = <<>> /\ rebased = <<>> /\ remotetags = <<>>
    /\ project = "Git" /\ publishtoremote = "origin"
    /\ upstreambranch = "upstream"
    /\ basedon \in {"", "base"}
    /\ basecommit \in BaseCommits /\ remoteRef \in BaseCommits
    /\ branchdesc \in Descriptions
    /\ url \in Urls
    /\ pc = "determineBaseBranch" /\ status = ""
    /\ FreshProc(FALSE)
    /\ tagged = 0
    /\ made = NoRebase /\ streak = -1 /\ resend = FALSE
    /\ lines = <<>> /\ cover_letter = FALSE /\ tagmessage = <<>>
    /\ dashdash = 0 /\ before = NotYet
    /\ NoSubprocess

determineBaseBranch ==
    /\ pc = "determineBaseBranch"
    /\ LET override == basedon # "" /\ basecommit # NoCommit
           died == IF ~override THEN ""
                   ELSE IF publishtoremote = "" THEN "Need a remote to publish to"
                   ELSE IF remoteRef = NoCommit THEN "not pushed"
                   ELSE IF basecommit # remoteRef THEN "disagrees with local branch"
                   ELSE ""
           name == IF override /\ died = "" THEN basedon ELSE upstreambranch
       IN
       /\ upstreambranch' = name
       /\ IF died # "" THEN Die(died)
          ELSE IF RevList(branch, UpstreamCommit(name)) # {} THEN Die("not rebased")
          ELSE /\ pc' = "determineIteration"
               /\ UNCHANGED <<status, redo, latesttag, path, patch_no,
                              subject_prefix, in_reply_to, interdiff, messageID,
                              ops, streak>>
    /\ UNCHANGED <<repo, project, publishtoremote, basecommit, remoteRef,
                   tagged, made, resend>>
    /\ UNCHANGED <<document, subprocess>>

NextBase ==
    \/ determineBaseBranch
    \/ determineIteration
    \/ generateMBoxLines
    \/ insertCcAndFromLines
    \/ adjustCoverLetter
    \/ generateTagMessage
    \/ findFooter
    \/ insertLinks
    \/ generateTagObjectLines
    \/ sendMBox
    \/ publishBranch

SpecBase == InitBase /\ [][NextBase]_vars

\* ------------------------------------------------- the git commands of a run
\* SpecCalls follows the git commands of a run one by one, each with the
\* exit status and the output git may give it.  The commands are named by
\* the line of the script that issues them.
\* gitConfig(key): callGitSync(['config', key], { gentle: true })
GitConfigSites == {98, 115, 157, 172, 221, 333, 459}
\* commitExists(commit): spawnSync('git', ['rev-parse', '--verify', commit])
CommitExistsSites == {194, 204, 209, 222, 227, 291}
\* callGitSync(args) and callGitSync(args, { input: ... })
CallGitSyncSites ==
    {106, 133, 138, 141, 143, 147, 152, 159, 199, 201, 230, 231, 238, 244,
     254, 266, 272, 286, 287, 292, 295, 296, 299, 302, 304, 309, 310, 311,
     314, 317, 319, 321, 335, 351, 355, 422, 501, 519, 529}
\* of these, git config --get-all <key>
ConfigGetAllSites == {133, 244}
\* options['gentle'] as the call site passes it
GentleOption(line) == line \in GitConfigSites

ExitStatuses == {0, 1, 128}
\* what git writes to stdout: nothing, a line without or with its newline,
\* a line and an empty line
Outputs ==
    { <<Blank>>, << <<"out">> >>, << <<"out">>, Blank >>,
      << <<"out">>, Blank, Blank >> }
\* .replace(/\n$/, '')
StripNewline(text) ==
    IF Len(text) > 1 /\ Last(text) = Blank
    THEN SubSeq(text, 1, Len(text) - 1) ELSE text
\* (mutant: the option is not looked at)
GentleNever(option) == FALSE
\* !(typeof(options['gentle']) == 'undefined' || !options['gentle'])
Gentle(option) == option
\* process.exit(1) in die(); a run that ends otherwise exits with 0
ExitCode(st) == IF st \in {"", "ok"} THEN 0 ELSE 1

InitCalls ==
    /\ upstream = 0
    /\ branch = Commit(0, 1)
    /\ head = OnBranch
    /\ tags = <<>> /\ rebased = <<>> /\ remotetags = <<>>
    /\ NoBase
    /\ project \in Projects
    /\ publishtoremote \in {"", "origin"}
    /\ pc = "running" /\ status = ""
    /\ FreshProc(FALSE)
    /\ tagged = 0
    /\ made = NoRebase
    /\ streak = -1
    /\ resend = FALSE
    /\ NoDocument
    /\ NoSubprocess

\* callGitSync(args, options) at one of its call sites
callGitSync ==
    /\ pc = "running"
    /\ \E line \in CallGitSyncSites \cup GitConfigSites,
          st \in ExitStatuses, out \in Outputs :
         /\ line > call.line
         /\ IF ~Gentle(GentleOption(line)) /\ st # 0
            THEN /\ call' = [line |-> line, gentle |-> GentleOption(line),
                             status |-> st, stdout |-> out, returned |-> <<>>]
                 /\ Die("git failed with status")
            ELSE /\ call' = [line |-> line, gentle |-> GentleOption(line),
                             status |-> st, stdout |-> out,
                             returned |-> StripNewline(out)]
                 /\ UNCHANGED proc
                 /\ streak' = streak
    /\ UNCHANGED <<repo, config, tagged, made, resend, document>>
    /\ UNCHANGED <<child, stdout, stderr, promise, events, argv, spawned,
                   pleased>>

\* commitExists(commit) at one of its call sites
commitExists ==
    /\ pc = "running"
    /\ \E line \in CommitExistsSites, st \in ExitStatuses, out \in Outputs :
         /\ line > call.line
         /\ call' = [line |-> line, gentle |-> FALSE, status |-> st,
                     stdout |-> out,
                     returned |-> << <<IF st = 0 THEN "true" ELSE "false">> >>]
    /\ UNCHANGED <<repo, config, proc, tagged, made, streak, resend, document>>
    /\ UNCHANGED <<child, stdout, stderr, promise, events, argv, spawned,
                   pleased>>

\* the script runs to its end
finish ==
    /\ pc = "running"
    /\ pc' = "idle" /\ status' = "ok"
    /\ UNCHANGED <<redo, latesttag, path, patch_no, subject_prefix,
                   in_reply_to, interdiff, messageID, ops>>
    /\ UNCHANGED <<repo, config, tagged, made, streak, resend, document,
                   subprocess>>

NextCalls == callGitSync \/ commitExists \/ finish

SpecCalls == InitCalls /\ [][NextCalls]_vars

\* ------------------------------------------------------- git(args) of git.js
\* SpecSpawn follows git(['version']) of test.js: spawn('git', args) with
\* neither stdin nor options, and the events of the child in any order
\* Node can deliver them: 'data' on stdout and stderr and 'error' before
\* 'close', 'close' last.
MaxChunks == 2    \* 'data' events of each stream

Chunks == { <<"git">>, <<" ", "version">> }
SpawnError == <<"spawn", " ", "git", " ", "ENOENT">>
\* options.rejectOnError when no options are passed
rejectOnError == TRUE
\* stdout += data, stderr += data
Accumulate(text, data) == Concat(text, data)
\* (mutant: a settled promise is settled again)
SettleAgain(p, st, value) == [state |-> st, value |-> value]
\* resolve(value), reject(value): nothing happens to a settled promise
Settle(p, st, value) ==
    IF p.state = "pending" THEN [state |-> st, value |-> value] ELSE p
Emitted(type) == { i \in 1..Len(events) : events[i].type = type }

InitSpawn ==
    /\ upstream = 0
    /\ branch = Commit(0, 1)
    /\ head = OnBranch
    /\ tags = <<>> /\ rebased = <<>> /\ remotetags = <<>>
    /\ NoBase
    /\ project = "Git" /\ publishtoremote = "origin"
    /\ pc = "idle" /\ status = ""
    /\ FreshProc(FALSE)
    /\ tagged = 0
    /\ made = NoRebase
    /\ streak = -1
    /\ resend = FALSE
    /\ NoDocument
    /\ NoSubprocess

\* a step of SpecSpawn leaves all but the child and the promise alone
OnlySpawn ==
    UNCHANGED <<repo, config, proc, tagged, made, streak, resend, document, call,
                argv, spawned, pleased>>

\* git(['version']): the child is spawned and the promise is made
spawn ==
    /\ child.state = "none"
    /\ child' = [state |-> "running", code |-> 0]
    /\ stdout' = <<>> /\ stderr' = <<>>
    /\ promise' = [state |-> "pending", value |-> <<>>]
    /\ events' = <<>>
    /\ OnlySpawn

\* child.stdout.on('data', ...)
stdoutData ==
    /\ child.state = "running"
    /\ Cardinality(Emitted("stdout")) < MaxChunks
    /\ \E data \in Chunks :
         /\ stdout' = Accumulate(stdout, data)
         /\ events' = Append(events, [type |-> "stdout", data |-> data])
    /\ UNCHANGED <<child, stderr, promise>>
    /\ OnlySpawn

\* child.stderr.on('data', ...)
stderrData ==
    /\ child.state = "running"
    /\ Cardinality(Emitted("stderr")) < MaxChunks
    /\ \E data \in Chunks :
         /\ stderr' = Accumulate(stderr, data)
         /\ events' = Append(events, [type |-> "stderr", data |-> data])
    /\ UNCHANGED <<child, stdout, promise>>
    /\ OnlySpawn

\* child.addListener('error', reject)
childError ==
    /\ child.state = "running"
    /\ Emitted("error") = {}
    /\ events' = Append(events, [type |-> "error", data |-> SpawnError])
    /\ promise' = IF rejectOnError THEN Settle(promise, "rejected", SpawnError)
                  ELSE promise
    /\ UNCHANGED <<child, stdout, stderr>>
    /\ OnlySpawn

\* child.on('close', function (code) ...)
childClose ==
    /\ child.state = "running"
    /\ \E code \in {0, 1} :
         /\ child' = [state |-> "closed", code |-> code]
         /\ promise' = IF code # 0 /\ rejectOnError
                       THEN Settle(promise, "rejected", stderr)
                       ELSE Settle(promise, "fulfilled", stdout)
    /\ events' = Append(events, [type |-> "close", data |-> <<>>])
    /\ UNCHANGED <<stdout, stderr>>
    /\ OnlySpawn

NextSpawn == spawn \/ stdoutData \/ stderrData \/ childError \/ childClose

SpecSpawn == InitSpawn /\ [][NextSpawn]_vars

\* ------------------------------------- the optional arguments of spawn
\* SpecShapes gives one call, in each of the four shapes git(args),
\* git(args, stdin), git(args, options) and git(args, stdin, options), to
\* spawn of promising-spawn.js and to spawnPlease, and lets the child of
\* each close with the same exit code.
String(s) == [type |-> "string", value |-> s]
\* an options object: its rejectOnError ("undefined" when it has none) and
\* its cwd ("" when it has none)
Object(r, dir) == [type |-> "object", rejectOnError |-> r, cwd |-> dir]
CallShapes ==
    LET Strings == {String(""), String("in"), String("put"), String("more")}
        OptionObjects == { Object(r, dir) : r \in {"undefined", "true", "false"},
                                            dir \in {"", "dir"} }
    IN {[stdin |-> Undefined, options |-> Undefined]}
       \cup {[stdin |-> s, options |-> Undefined] : s \in Strings}
       \cup {[stdin |-> o, options |-> Undefined] : o \in OptionObjects}
       \cup {[stdin |-> s, options |-> o] : s \in Strings, o \in OptionObjects}
\* a value in a condition or on the left of ||
Truthy(v) ==
    CASE v.type = "undefined" -> FALSE
      [] v.type = "string" -> v.value # ""
      [] v.type = "object" -> TRUE
\* if (options === undefined && typeof stdin !== 'object')
\*   { options = stdin; stdin = undefined; }
OptionalStdin(a) ==
    IF a.options = Undefined /\ a.stdin.type # "object"
    THEN [stdin |-> Undefined, options |-> a.stdin] ELSE a
\* if (!options && typeof stdin === 'object')
\*   { options = stdin; stdin = undefined }
OptionalStdinPlease(a) ==
    IF ~Truthy(a.options) /\ a.stdin.type = "object"
    THEN [stdin |-> Undefined, options |-> a.stdin] ELSE a
\* options = options || {}; if (options.rejectOnError === undefined)
\* options.rejectOnError = true: an assignment to a property of a string is
\* dropped
Defaults(options) ==
    LET o == IF Truthy(options) THEN options ELSE Object("undefined", "") IN
    IF o.type = "object" /\ o.rejectOnError = "undefined"
    THEN [o EXCEPT !.rejectOnError = "true"] ELSE o
\* options.rejectOnError in a condition
RejectOnError(o) == o.type = "object" /\ o.rejectOnError = "true"
\* the rest of the function, the same in both files: child_process.spawn
\* throws a TypeError for options that are not an object; in the executor of
\* the promise stdin.write throws a TypeError for a chunk that is an object,
\* which rejects the promise before a listener is attached; else stdin is
\* written, if there is one, and the promise waits for the child
Start(a) ==
    LET o == Defaults(a.options) IN
    IF o.type # "object"
    THEN [state |-> "threw", options |-> o, written |-> "", promise |-> "none"]
    ELSE IF a.stdin.type = "object"
    THEN [state |-> "unheard", options |-> o, written |-> "",
          promise |-> "rejected"]
    ELSE [state |-> "running", options |-> o,
          written |-> IF a.stdin = Undefined THEN "" ELSE a.stdin.value,
          promise |-> "pending"]
\* child.on('close', function (code) ...)
Close(r, code) ==
    IF r.state # "running" THEN r
    ELSE [r EXCEPT !.state = "closed",
                   !.promise = IF code # 0 /\ RejectOnError(r.options)
                               THEN "rejected" ELSE "fulfilled"]

InitShapes ==
    /\ upstream = 0
    /\ branch = Commit(0, 1)
    /\ head = OnBranch
    /\ tags = <<>> /\ rebased = <<>> /\ remotetags = <<>>
    /\ NoBase
    /\ project = "Git" /\ publishtoremote = "origin"
    /\ pc = "idle" /\ status = ""
    /\ FreshProc(FALSE)
    /\ tagged = 0
    /\ made = NoRebase
    /\ streak = -1
    /\ resend = FALSE
    /\ NoDocument
    /\ call = [line |-> 0, gentle |-> FALSE, status |-> 0, stdout |-> <<>>,
               returned |-> <<>>]
    /\ child = [state |-> "none", code |-> 0]
    /\ stdout = <<>> /\ stderr = <<>>
    /\ promise = [state |-> "none", value |-> <<>>] /\ events = <<>>
    /\ argv \in CallShapes
    /\ spawned = NotCalled /\ pleased = NotCalled

\* a step of SpecShapes leaves all but the two calls alone
OnlyShapes ==
    UNCHANGED <<repo, config, proc, tagged, made, streak, resend, document, call,
                child, stdout, stderr, promise, events, argv>>

\* spawn('git', args, stdin, options) and spawnPlease('git', args, stdin,
\* options)
spawnBoth ==
    /\ spawned.state = "none"
    /\ spawned' = Start(OptionalStdin(argv))
    /\ pleased' = Start(OptionalStdinPlease(argv))
    /\ OnlyShapes

\* the 'close' event of the two children
closeBoth ==
    /\ "running" \in {spawned.state, pleased.state}
    /\ \E code \in {0, 1} :
         /\ spawned' = Close(spawned, code)
         /\ pleased' = Close(pleased, code)
    /\ OnlyShapes

NextShapes == spawnBoth \/ closeBoth

SpecShapes == InitShapes /\ [][NextShapes]_vars

\* ------------------------------------------------------------- properties
\* the steps of determineIteration that rebuild the rebased tag
RebasePcs == {"checkout", "rebase", "tag", "push", "restore"}
\* determineIteration has returned and the run goes on
ReturnedPcs == {"generateMBox", "generateTagObject", "sendMBox", "publishBranch"}
\* what determineIteration can log
RebaseOps == {"checkout", "rebase", "tag rebased", "tag -f rebased",
              "push rebased", "push +rebased", "checkout branch"}
Logged(op) == \E i \in 1..Len(ops) : ops[i] = op
Count(op) == Cardinality({ i \in 1..Len(ops) : ops[i] = op })
\* the branch has exactly the tags v1..vN, created in that order
TagsAreV1To(N) ==
    /\ DOMAIN tags = 1..N
    /\ \A n \in 1..N : tags[n].date = n

\* C1: with exactly the tags v1..vN (N >= 1, created in that order) and new
\* commits on the branch, a normal run yields iteration N+1 and a redo run
\* iteration N; the tag a run then writes is <branch>-v<patch_no>, so a redo
\* run rewrites vN and leaves no v(N+1) behind.
C1_IterationNumber ==
    /\ \A N \in 1..(MaxTagged + 1) :
         (pc \in RebasePcs \cup {"diff", "generateMBox", "generateTagObject"}
            /\ TagsAreV1To(N))
         => /\ ~redo => patch_no = N + 1
            /\ redo => patch_no = N
    /\ pc = "sendMBox" =>
         /\ TagsAreV1To(patch_no)
         /\ tags[patch_no].commit = branch
         /\ Last(ops) = (IF redo THEN "tag -f" ELSE "tag")
\* a redo run with the tags v1 and v2 has selected v1 and redoes iteration 2
C1_Witness ==
    /\ pc = "generateMBox" /\ redo
    /\ TagsAreV1To(2) /\ latesttag = 1 /\ patch_no = 2

\* C2: without an iteration tag determineIteration returns iteration 1, an
\* empty reply chain, an empty interdiff and a subject prefix without
\* version, and it has run no checkout, rebase, tag or push.
C2_FirstIteration ==
    DOMAIN tags = {} =>
      /\ pc \notin RebasePcs \cup {"diff"}
      /\ status # "already submitted"
      /\ pc = "generateMBox" =>
           /\ patch_no = 1
           /\ in_reply_to = <<>>
           /\ interdiff = <<>>
           /\ subject_prefix = 0
           /\ ops = <<>>
C2_Witness == pc = "generateMBox" /\ DOMAIN tags = {} /\ patch_no = 1

C4_NormalStep ==
    (pc # "idle" /\ ~redo) =>
      \/ tags' = tags
      \/ \E n \in DOMAIN tags' \ DOMAIN tags :
            /\ \A t \in DOMAIN tags : n > t /\ tags'[t] = tags[t]
            /\ DOMAIN tags' = DOMAIN tags \cup {n}
C4_OnlyRedoForces ==
    /\ [][C4_NormalStep]_vars
    /\ [](~redo => ~Logged("tag -f") /\ ~Logged("push +tag"))
\* a normal run has added v2 to v1 and pushed it without force
C4_Witness ==
    /\ pc = "idle" /\ status = "ok" /\ ~redo
    /\ DOMAIN tags = {1, 2} /\ Logged("tag") /\ Logged("push tag")


\* C5: after k normal runs in a row that all succeeded (for the project whose
\* links the extraction recognises), the reply chain of run k+1 is the
\* Message-IDs of the runs 1..k, each once and oldest first, and the tag
\* v(k+1) carries its In-Reply-To trailers in that order.
C5_ChainOldestFirst ==
    \A k \in 1..MaxChain :
      (project = "Git" /\ streak = k /\ ~redo) =>
        /\ pc \in ReturnedPcs => in_reply_to = FirstMids(k)
        /\ pc \in {"sendMBox", "publishBranch"} =>
             tags[k + 1].msg =
               TagMessage(Summary, GitPrefix, <<Mid(k + 1)>>, FirstMids(k))

\* C6: the reply chain is empty exactly when the iteration is 1, and for an
\* iteration >= 2 it holds the Message-ID that the selected tag records as
\* Submitted-As, whichever project's midUrlPrefix the tag was written with.
C6_ChainEmptyOnlyFirst ==
    pc \in ReturnedPcs =>
      /\ (in_reply_to = <<>>) <=> (patch_no = 1)
      /\ latesttag # 0 =>
           \E m \in 1..MaxChain :
             /\ tags[latesttag].msg[3] =
                  SubmittedAs(midUrlPrefix(project), <<Mid(m)>>)
             /\ \E i \in 1..Len(in_reply_to) : in_reply_to[i] = <<Mid(m)>>

\* C7 (as claimed): from a tag message with the recognised lines
\* [linkA, linkB] the extracted reply chain is [idA, idB].
C7_OrderPreserving ==
    \A la \in Links(IdA), lb \in Links(IdB) :
      (pc = "generateMBox" /\ latesttag = 1 /\ tags[1].msg = Legacy(la, lb))
      => in_reply_to = <<IdA, IdB>>
\* C7 (amended): the extraction reverses the order of the lines: from
\* [linkA, linkB] the reply chain is [idB, idA]; a line that is no link
\* adds nothing.
C7_OrderReversed ==
    \A la \in Links(IdA) \cup {NoLink}, lb \in Links(IdB) \cup {NoLink} :
      (pc = "generateMBox" /\ latesttag = 1 /\ tags[1].msg = Legacy(la, lb))
      => in_reply_to = (IF lb = NoLink THEN <<>> ELSE <<IdB>>)
                       \o (IF la = NoLink THEN <<>> ELSE <<IdA>>)
\* a public-inbox link followed by a gmane link has been extracted
C7_Witness ==
    /\ pc = "generateMBox" /\ latesttag = 1
    /\ tags[1].msg = Legacy(Trailer("In-Reply-To", Concat(GitPrefix, IdA)),
                            Trailer("In-Reply-To", Concat(GmaneLit, IdB)))
    /\ in_reply_to = <<IdB, IdA>>

\* C8: with a tag selected, when upstream holds nothing the tag lacks the
\* interdiff is diff(tag, tip) and no rebased tag was created, checked out
\* or pushed; otherwise the interdiff is diff(<tag>-rebased, tip), and when
\* that diff is taken the rebased tag contains the upstream tip, having been
\* created when missing and force-updated when stale.
C8_Interdiff ==
    /\ (pc = "generateMBox" /\ latesttag # 0) =>
         IF ~IsStale(tags[latesttag].commit)
         THEN /\ interdiff = Diff(tags[latesttag].commit, branch)
              /\ ops = <<>>
         ELSE /\ latesttag \in DOMAIN rebased
              /\ interdiff = Diff(rebased[latesttag], branch)
              /\ path = "missing" => Logged("tag rebased")
              /\ path = "stale" => Logged("tag -f rebased")
    /\ pc = "diff" =>
         /\ latesttag \in DOMAIN rebased
         /\ RevList(rebased[latesttag], UpstreamTip) = {}
\* a stale rebased tag was rebuilt and the interdiff taken against it
C8_Witness ==
    /\ pc = "generateMBox" /\ path = "stale"
    /\ interdiff = Diff(rebased[latesttag], branch)
    /\ Logged("tag -f rebased")

\* C9: when the run before this one wrote the rebased tag of the tag this
\* run selects and upstream has not changed since, this run runs no
\* checkout, rebase, tag or push for it and takes its interdiff against the
\* commit that run tagged.
C9_RebaseIdempotent ==
    (pc # "idle" /\ made.run = "last" /\ made.tag = latesttag) =>
      /\ pc \notin RebasePcs
      /\ \A i \in 1..Len(ops) : ops[i] \notin RebaseOps
      /\ pc \in ReturnedPcs => interdiff = Diff(made.commit, branch)
C9_Witness ==
    /\ pc = "generateMBox" /\ made.run = "last" /\ made.tag = latesttag
    /\ path = "fresh" /\ ops = <<>>

\* C10: once determineIteration has returned the checkout is the branch, on
\* every path; each detached checkout was followed by a checkout of the
\* branch before the interdiff is taken.
C10_CheckoutRestored ==
    pc \in ReturnedPcs \cup {"diff"} =>
      /\ head = OnBranch
      /\ Count("checkout") = Count("checkout branch")
C10_Witness ==
    /\ pc = "generateMBox" /\ path = "missing"
    /\ Logged("checkout") /\ Logged("checkout branch") /\ head = OnBranch

\* C11: a run without a publish remote (and nothing else wrong) does not die
\* for the lack of one; when it ends well it has created the tag and handed
\* the document to send-mbox, and it has pushed nothing.
C11_NoRemoteCompletes ==
    publishtoremote = "" =>
      /\ status # "No valid remote"
      /\ status = "ok" =>
           /\ Logged("tag") \/ Logged("tag -f")
           /\ Logged("send")
           /\ ~Logged("push tag") /\ ~Logged("push +tag")

IndicesOf(ls, l) == { i \in 0..(Len(ls) - 1) : At(ls, i) = l }

\* C13: findFooter returns, with a cover letter, the index of the first
\* signature delimiter '-- ' and, without one, the index right after the
\* first '---' line of the single patch, at whatever index that line is.
C13_FooterIndex ==
    before # NotYet =>
      LET signatures == IndicesOf(before.lines, SignatureLine)
          delimiters == IndicesOf(before.lines, DiffstatDelimiter)
      IN IF cover_letter
         THEN signatures # {} => before.dashdash = Min(signatures)
         ELSE delimiters # {} => before.dashdash = Min(delimiters) + 1

\* generateTagObject has written the tag (and inserted the interdiff)
TagWritten == Logged("tag") \/ Logged("tag -f")
\* the first token of each line of a block ("" for an empty line)
Keys(block) == [i \in 1..Len(block) |-> IF block[i] = Blank THEN "" ELSE block[i][1]]
\* the keys of the blocks, in the order the passes insert them
KeysOf(based, published, diff) ==
    (IF based THEN <<"Based-On", "Fetch-Base-Via">> ELSE <<>>)
    \o (IF published THEN <<"Published-As", "Fetch-It-Via">> ELSE <<>>)
    \o (IF diff = <<>> THEN <<>>
        ELSE <<"", "Interdiff">> \o [i \in 1..Len(InterdiffLines(diff)) |-> " "])

\* C14: whichever of the Based-On pair, the Published-As pair and the
\* interdiff block are inserted, the footer index never decreases, the
\* lines the document had before the insertions are all still there in
\* their order, and the inserted blocks stand together, in that order, at
\* the footer index findFooter returned, before the line that was there.
C14_InsertionsInOrder ==
    (before # NotYet /\ pc # "insertLinks") =>
      LET old == before.lines
          at == before.dashdash
          k == Len(lines) - Len(old)
      IN /\ dashdash >= at
         /\ k >= 0 /\ at <= Len(old)
         /\ SubSeq(lines, 1, at) = SubSeq(old, 1, at)
         /\ SubSeq(lines, at + k + 1, Len(lines)) = SubSeq(old, at + 1, Len(old))
         /\ \E based, published \in BOOLEAN :
              Keys(SubSeq(lines, at + 1, at + k)) =
                KeysOf(based, published, IF TagWritten THEN interdiff ELSE <<>>)

\* C15: when generateTagObject has an interdiff, what it inserts at the
\* footer index is an empty line, the label 'Interdiff vs v<N-1>:' (N the
\* iteration of this run, also with --redo) and every line of the interdiff
\* behind one space; without an interdiff it inserts nothing.
InterdiffLabel(n) == <<"Interdiff", " ", "vs", " ", "v" \o ToString(n - 1), ":">>
C15_InterdiffQuoted ==
    [][(pc = "generateTagObject" /\ pc' = "sendMBox") =>
         IF interdiff = <<>> THEN lines' = lines
         ELSE LET text == InterdiffLines(interdiff)
                  at == Min({dashdash, Len(lines)})
              IN /\ Len(lines') = Len(lines) + 2 + Len(text)
                 /\ SubSeq(lines', 1, at) = SubSeq(lines, 1, at)
                 /\ lines'[at + 1] = Blank
                 /\ lines'[at + 2] = InterdiffLabel(patch_no)
                 /\ \A i \in 1..Len(text) : lines'[at + 2 + i] = <<" ">> \o text[i]
                 /\ SubSeq(lines', at + 3 + Len(text), Len(lines'))
                      = SubSeq(lines, at + 1, Len(lines))]_vars
C15_Witness ==
    /\ pc = "sendMBox" /\ redo /\ patch_no = 2 /\ interdiff # <<>>
    /\ dashdash + 1 < Len(lines)
    /\ At(lines, dashdash) = Blank
    /\ At(lines, dashdash + 1) = InterdiffLabel(2)
    /\ At(lines, dashdash + 3) = <<" ", " ", "kept">>

\* the mails of a document: from each separator line up to the next
MailsOf(ls) ==
    LET starts == { i \in 1..Len(ls) : separatorRegex(ls[i]) }
        nth(k) == CHOOSE x \in starts : Cardinality({ y \in starts : y < x }) = k - 1
        end(x) == Min({ y - 1 : y \in { z \in starts : z > x } } \cup {Len(ls)})
    IN [k \in 1..Cardinality(starts) |-> SubSeq(ls, nth(k), end(nth(k)))]
\* the header block of a mail (without the separator) and what follows the
\* empty line that ends it
HeaderEnd(mail) == Min({ i \in 1..Len(mail) : mail[i] = Blank } \cup {Len(mail) + 1})
HeaderOf(mail) == SubSeq(mail, 2, HeaderEnd(mail) - 1)
AfterHeader(mail) == SubSeq(mail, HeaderEnd(mail) + 1, Len(mail))
\* the values of the header lines of a name, in order
RECURSIVE ValuesOf(_, _)
ValuesOf(header, name) ==
    IF header = <<>> THEN <<>>
    ELSE (IF /\ Len(header[1]) >= 3 /\ header[1][1] = name
             /\ header[1][2] = ":" /\ header[1][3] = " "
          THEN <<SubSeq(header[1], 4, Len(header[1]))>> ELSE <<>>)
         \o ValuesOf(Tail(header), name)
\* the header lines other than From and Cc, in order
RECURSIVE OtherLines(_)
OtherLines(header) ==
    IF header = <<>> THEN <<>>
    ELSE (IF Len(header[1]) >= 1 /\ header[1][1] \in {"From", "Cc"}
          THEN <<>> ELSE <<header[1]>>)
         \o OtherLines(Tail(header))

\* C16: insertCcAndFromLines leaves a mail of the operator as it is; in a
\* mail of another author the header From becomes the operator, the author
\* is merged into the Cc line the mail has (one Cc line afterwards) or gets
\* a Cc line when there is none, and one 'From: <author>' line and an empty
\* line are added where the header block ends.
C16_AuthorDemoted ==
    [][(pc = "insertCcAndFromLines" /\ pc' = "adjustCoverLetter") =>
         LET old == MailsOf(lines)
             new == MailsOf(lines')
         IN /\ Len(new) = Len(old)
            /\ \A k \in 1..Len(old) :
                 LET author == ValuesOf(HeaderOf(old[k]), "From")[1]
                     cced == ValuesOf(HeaderOf(old[k]), "Cc")
                 IN IF author = Me THEN new[k] = old[k]
                    ELSE /\ ValuesOf(HeaderOf(new[k]), "From") = <<Me>>
                         /\ ValuesOf(HeaderOf(new[k]), "Cc") =
                              IF cced = <<>> THEN <<author>>
                              ELSE <<author \o <<",", " ">> \o cced[1]>>
                         /\ OtherLines(HeaderOf(new[k])) = OtherLines(HeaderOf(old[k]))
                         /\ AfterHeader(new[k]) =
                              <<Header("From", author), Blank>> \o AfterHeader(old[k])]_vars

\* does the line end with the '*** SUBJECT HERE ***' placeholder
EndsWithSubjectHere(line) ==
    /\ Len(line) >= Len(SubjectHere)
    /\ SubSeq(line, Len(line) - Len(SubjectHere) + 1, Len(line)) = SubjectHere

\* C17: after adjustCoverLetter the Subject of the cover letter is the
\* subject prefix and the first line of the branch description, and no
\* more; the body of the cover letter is the rest of the description; and
\* neither placeholder is left in the document.
C17_FirstLineIsSubject ==
    (pc = "generateTagMessage" /\ cover_letter) =>
      LET cover == MailsOf(lines)[1]
          rest == Tail(branchdesc)
          body == IF rest # <<>> /\ rest[1] = Blank THEN Tail(rest) ELSE rest
      IN /\ ValuesOf(HeaderOf(cover), "Subject") =
              << SubjectTag(subject_prefix, 0, Len(series), TRUE)
                 \o <<" ">> \o branchdesc[1] >>
         /\ SubSeq(AfterHeader(cover), 1, Len(body)) = body
         /\ \A i \in 1..Len(lines) :
              lines[i] # BlurbHere /\ ~EndsWithSubjectHere(lines[i])

\* C18: without a cover letter generateTagMessage returns the summary line
\* of the commit at the tip of the branch, whatever headers and body
\* paragraphs the commit has; with a cover letter it returns the text of
\* the normalised Subject and then the lines of the cover letter from the
\* end of its header up to, not including, the '-- ' line.
C18_TagMessageIsSummary ==
    pc = "findFooter" =>
      IF ~cover_letter THEN tagmessage = <<Summary>>
      ELSE LET cover == MailsOf(lines)[1]
               signature == Min({ i \in 1..Len(cover) : cover[i] = SignatureLine })
           IN tagmessage = ValuesOf(HeaderOf(cover), "Subject")
                           \o SubSeq(cover, HeaderEnd(cover), signature - 1)

\* C19: a git command issued through callGitSync that exits non-zero ends
\* the run at once, with a non-zero status, unless the call passes the
\* gentle option; then the run goes on with what the command wrote to
\* stdout.  The calls a non-zero exit does not end are reads of the
\* configuration and probes for a commit, and no others.
C19_NonZeroIsFatal ==
    [][call' # call =>
         /\ call'.line \in CallGitSyncSites \cup GitConfigSites =>
              IF call'.status # 0 /\ ~call'.gentle
              THEN pc' = "idle" /\ ExitCode(status') # 0
              ELSE /\ pc' = "running"
                   /\ IF Len(call'.stdout) > 1 /\ Last(call'.stdout) = Blank
                      THEN call'.returned \o <<Blank>> = call'.stdout
                      ELSE call'.returned = call'.stdout
         /\ call'.line \in CommitExistsSites =>
              /\ pc' = "running"
              /\ call'.returned = << <<"true">> >> <=> call'.status = 0
         /\ (call'.status # 0 /\ pc' = "running") =>
              call'.line \in GitConfigSites \cup ConfigGetAllSites
                             \cup CommitExistsSites]_vars
C19_Witness ==
    /\ pc = "idle" /\ status = "git failed with status"
    /\ call.line = 244 /\ call.status = 1 /\ ~call.gentle

\* what the chunks of the events of one type make when joined in the order
\* the events arrived
RECURSIVE Joined(_, _)
Joined(evs, type) ==
    IF evs = <<>> THEN <<>>
    ELSE Concat(IF evs[1].type = type THEN evs[1].data ELSE <<>>,
                Joined(Tail(evs), type))
Settled == promise.state \in {"fulfilled", "rejected"}

\* C20: the promise of git(args) settles once, and only after the close
\* event of the child: fulfilled with the stdout chunks joined in the order
\* they arrived when the exit code is 0, rejected (with what stderr gave, or
\* with the spawn error) otherwise, however the events are interleaved.
C20_SettlesAtClose ==
    [][/\ Settled => promise' = promise
       /\ (promise'.state \in {"fulfilled", "rejected"}) => child'.state = "closed"
       /\ child'.state = "closed" =>
            IF child'.code = 0
            THEN promise' = [state |-> "fulfilled",
                             value |-> Joined(events', "stdout")]
            ELSE /\ promise'.state = "rejected"
                 /\ promise'.value \in {Joined(events', "stderr"), SpawnError}]_vars

\* C20, as the code has it: the promise settles once; an error event
\* rejects it with the spawn error at once, before the close event, and
\* the close event that follows changes nothing, whatever the exit code;
\* without an error event it settles at the close event, as stated.
C20_SettlesAtErrorOrClose ==
    [][/\ Settled => promise' = promise
       /\ (promise'.state \in {"fulfilled", "rejected"}) <=>
            (child'.state = "closed" \/ Emitted("error")' # {})
       /\ Emitted("error")' # {} =>
            promise' = [state |-> "rejected", value |-> SpawnError]
       /\ (child'.state = "closed" /\ Emitted("error")' = {}) =>
            IF child'.code = 0
            THEN promise' = [state |-> "fulfilled",
                             value |-> Joined(events', "stdout")]
            ELSE promise' = [state |-> "rejected",
                             value |-> Joined(events', "stderr")]]_vars
C20_Witness ==
    /\ child = [state |-> "closed", code |-> 0]
    /\ Emitted("error") # {} /\ Cardinality(Emitted("stdout")) = 2
    /\ promise = [state |-> "rejected", value |-> SpawnError]

\* the place of a command in the sequence of the commands with a side effect
StepOf(op) ==
    CASE op = "checkout" -> 1
      [] op = "rebase" -> 2
      [] op \in {"tag rebased", "tag -f rebased"} -> 3
      [] op \in {"push rebased", "push +rebased"} -> 4
      [] op = "checkout branch" -> 5
      [] op \in {"tag", "tag -f"} -> 6
      [] op = "send" -> 7
      [] op \in {"push tag", "push +tag"} -> 8
Completed(k) == \E i \in 1..Len(ops) : StepOf(ops[i]) = k
\* the step a run that died was at
FailedStep ==
    CASE status = "git checkout failed" -> IF Completed(1) THEN 5 ELSE 1
      [] status = "git rebase failed" -> 2
      [] status = "git tag rebased failed" -> 3
      [] status = "git push rebased failed" -> 4
      [] status \in {"needs a description", "git tag failed"} -> 6
      [] status = "git send-mbox failed" -> 7
      [] status = "git push failed" -> 8
      [] OTHER -> 0

\* C21: the commands of a run that have a side effect complete in the
\* order rebased tag (written, then pushed), iteration tag, send, push of
\* branch and iteration tag, each at most once; nothing is sent unless the
\* iteration tag was written, nothing is pushed unless the send succeeded,
\* and a run that died at a step completed neither that step nor a later one.
C21_StepsInOrder ==
    /\ \A i, j \in 1..Len(ops) : i < j => StepOf(ops[i]) < StepOf(ops[j])
    /\ Completed(4) => Completed(3)
    /\ (Completed(6) /\ Completed(3)) => (Completed(4) /\ Completed(5))
    /\ Completed(7) => Completed(6)
    /\ Completed(8) => Completed(7)
    /\ FailedStep > 0 =>
         /\ pc = "idle"
         /\ \A k \in FailedStep..8 : ~Completed(k)
C21_Witness ==
    /\ pc = "idle" /\ status = "ok"
    /\ ops = <<"checkout", "rebase", "tag rebased", "push rebased",
               "checkout branch", "tag", "send", "push tag">>

\* the temporary checkout or the rebase for a rebased tag fails in this step
RebaseAborts ==
    /\ pc \in {"checkout", "rebase"}
    /\ status' \in {"git checkout failed", "git rebase failed"}
\* the run is over and has written no tag and completed no later command
AbortedInPlace ==
    /\ pc' = "idle"
    /\ rebased' = rebased /\ tags' = tags /\ tagged' = tagged
    /\ ops' = ops
    /\ \A k \in 3..8 : ~Completed(k)'

\* C22 (as claimed): when the temporary checkout or the rebase for a rebased
\* tag fails the run ends there, no rebased tag and no iteration tag is
\* written, nothing is sent or pushed, and the repository is left on the
\* temporary detached checkout.
C22_LeftDetached ==
    [][RebaseAborts => (AbortedInPlace /\ head'.detached)]_vars

\* C22 (amended): the run ends there and writes, sends and pushes nothing;
\* after a failed rebase the repository is left on the detached checkout,
\* after a failed checkout it is still on the branch, which was never left.
C22_AbortsWhereItIs ==
    [][RebaseAborts =>
         /\ AbortedInPlace
         /\ IF pc = "rebase" THEN head'.detached
                             ELSE head' = OnBranch]_vars
C22_Witness ==
    /\ pc = "idle" /\ status = "git checkout failed"
    /\ path \in {"stale", "missing"} /\ ops = <<>>
    /\ head = OnBranch

\* C23: with a publish remote, whenever a run takes its interdiff against a
\* rebased tag the publish remote has that tag and has it at the commit the
\* local tag is at, whatever the runs before did, a run that wrote the tag
\* and then failed before the push was through included.
C23_RemoteHasRebasedTag ==
    (pc = "diff" /\ publishtoremote # "") =>
        /\ latesttag \in DOMAIN remotetags
        /\ remotetags[latesttag] = rebased[latesttag]

\* the document has the Based-On line with the Fetch-Base-Via line after it
HasBasedOn ==
    \E i \in 1..(Len(lines) - 1) :
       /\ Len(lines[i]) > 3 /\ SubSeq(lines[i], 1, 3) = <<"Based-On", ":", " ">>
       /\ Len(lines[i + 1]) > 3
       /\ SubSeq(lines[i + 1], 1, 3) = <<"Fetch-Base-Via", ":", " ">>
\* the stored override resolves to a commit, is on the publish remote at that
\* commit and has replaced the upstream branch
OverrideActive ==
    /\ basedon # "" /\ basecommit # NoCommit
    /\ remoteRef = basecommit
    /\ upstreambranch = basedon
LinksInserted == pc \in {"generateTagObject", "sendMBox", "publishBranch"}

\* C24: the document gets the Based-On and Fetch-Base-Via lines exactly when
\* the base-branch override is active and the url of the publish remote is
\* one that is recognised; a run whose override resolves here but is missing
\* on the publish remote, or is at another commit there, dies in
\* determineBaseBranch; an override that resolves to nothing gives no
\* Based-On lines.
C24_BasedOnIffOverride ==
    /\ LinksInserted =>
         (HasBasedOn <=> (OverrideActive /\ NormalizeUrl(url) # <<>>))
    /\ (basedon # "" /\ basecommit # NoCommit /\ remoteRef # basecommit) =>
         \/ pc = "determineBaseBranch"
         \/ pc = "idle" /\ status \in {"not pushed", "disagrees with local branch"}
    /\ (LinksInserted /\ basecommit = NoCommit) => ~HasBasedOn

\* C25: for a call in any of the four shapes spawn of promising-spawn.js does
\* what spawnPlease does: the same options reach child_process.spawn, the
\* same text is written to stdin and the promise ends the same way for the
\* same exit code.  A string as third argument is written to stdin and a
\* non-zero exit rejects; an object as third argument is used as the
\* options and nothing is written.
C25_ShapesAgree ==
    spawned.state # "none" =>
        /\ spawned = pleased
        /\ (argv.stdin.type = "string" /\ argv.options = Undefined) =>
             /\ spawned.written = argv.stdin.value
             /\ RejectOnError(spawned.options)
        /\ (argv.stdin.type = "object" /\ argv.options = Undefined) =>
             /\ spawned.options = Defaults(argv.stdin)
             /\ spawned.written = ""

====
